---- MODULE Spec2Model ----
(***************************************************************************)
(* Model of the data-resolution core of uniweb/core:                       *)
(*   DataStore   (datastore.js)    - keyed cache + in-flight fetch table   *)
(*   EntityStore (entity-store.js) - hierarchy walk + cache-only resolve   *)
(*                                                                         *)
(* Scalars of JavaScript are strings ("undefined" and "null" stand for the *)
(* two non-values).  A payload (what a fetch returns as data and what the  *)
(* cache holds) is a record [t, items]: t is "undefined", "null", "array"  *)
(* or "object", items the list of item objects it holds.  A field of an    *)
(* item is a value [t, s]: its type and the string String() makes of it.   *)
(***************************************************************************)
EXTENDS Integers, Sequences, FiniteSets, TLC

\* ------------------------------------------------------------------ bounds
\* number of DataStore.fetch calls made in one behaviour
MaxCalls == 2
\* number of fields written in a declaration whose key is compared
MaxFields == 3
\* number of cache entries written before a block is resolved
MaxCached == 2

\* --------------------------------------------------------- JavaScript values
Undefined == "undefined"
Null == "null"

JsUndefined == [t |-> "undefined", items |-> << >>]
JsNull == [t |-> "null", items |-> << >>]
JsArray(items) == [t |-> "array", items |-> items]
JsObject(item) == [t |-> "object", items |-> <<item>>]

\* a test that takes every payload but undefined for data
HasData_NullIsData(d) == d.t # "undefined"

\* result.data !== undefined && result.data !== null
HasData(d) == d.t # "undefined" /\ d.t # "null"

\* ------------------------------------------------------------ fetch configs
\* An object literal is the sequence of its <<field, value>> pairs in the
\* order they were written.
GetField(config, f) ==
  IF \E i \in 1..Len(config) : config[i][1] = f
    THEN LET i == CHOOSE j \in 1..Len(config) : config[j][1] = f IN config[i][2]
    ELSE Undefined

\* JSON.stringify of an object of scalars: the pairs in insertion order, a
\* pair whose value is undefined is left out.
JSONstringify(obj) == SelectSeq(obj, LAMBDA p : p[2] # Undefined)

\* the key taken from the config as it was written
cacheKey_AsWritten(config) == JSONstringify(config)

cacheKey(config) ==
  JSONstringify(<< <<"path", GetField(config, "path")>>,
                   <<"url", GetField(config, "url")>>,
                   <<"schema", GetField(config, "schema")>>,
                   <<"transform", GetField(config, "transform")>> >>)

\* the configs the store is exercised with: two spellings of one declaration
\* (different field order, one with a detail convention) and a second one
CfgArticles == << <<"path", "/data/articles.json">>, <<"schema", "articles">> >>
CfgArticlesAlt == << <<"schema", "articles">>, <<"detail", "rest">>,
                     <<"path", "/data/articles.json">> >>
CfgTeams == << <<"url", "/api/teams">>, <<"schema", "teams">> >>
StoreConfigs == {CfgArticles, CfgArticlesAlt, CfgTeams}

\* a field value of an item and what String() makes of it
Str(s) == [t |-> "string", s |-> s]
Num(s) == [t |-> "number", s |-> s]
String(v) == v.s

ItemA == [slug |-> Str("a"), title |-> Str("A")]
ItemB == [slug |-> Str("b"), title |-> Str("B")]

\* values handed to set()
SetValues == {JsArray(<<ItemB>>)}

\* what the promise of the registered fetcher can do
NoResult == [data |-> JsUndefined, error |-> Undefined]
Outcomes ==
  { [kind |-> "fulfilled", result |-> [data |-> JsArray(<<ItemA>>), error |-> Undefined]],
    [kind |-> "fulfilled", result |-> [data |-> JsArray(<< >>), error |-> Undefined]],
    [kind |-> "fulfilled", result |-> [data |-> JsNull, error |-> "Not found"]],
    [kind |-> "fulfilled", result |-> [data |-> JsUndefined, error |-> Undefined]],
    [kind |-> "rejected", result |-> [data |-> JsUndefined, error |-> "transport failed"]] }

ConfigError == [data |-> JsUndefined, error |-> "no fetcher registered"]

\* ------------------------------------------------------- strings as JS has them
\* a value is falsy when it is undefined, null or the empty string
Falsy(s) == s = Undefined \/ s = Null \/ s = ""
endsWith(s, suffix) ==
  Len(s) >= Len(suffix) /\ SubSeq(s, Len(s) - Len(suffix) + 1, Len(s)) = suffix
\* s.slice(0, -n)
DropLast(s, n) == IF Len(s) <= n THEN "" ELSE SubSeq(s, 1, Len(s) - n)
\* s.slice(-1)
LastChar(s) == IF s = "" THEN "" ELSE SubSeq(s, Len(s), Len(s))
includes(s, ch) == \E i \in 1..Len(s) : SubSeq(s, i, i) = ch

irregulars(name) ==
  CASE name = "people" -> "person"
    [] name = "children" -> "child"
    [] name = "men" -> "men"
    [] name = "women" -> "woman"
    [] name = "series" -> "series"
    [] OTHER -> Undefined

\* a singular form that only drops a final s
singularize_DropS(name) ==
  IF Falsy(name) THEN name
  ELSE IF endsWith(name, "s") THEN DropLast(name, 1)
  ELSE name

singularize(name) ==
  IF Falsy(name) THEN name
  ELSE IF irregulars(name) # Undefined THEN irregulars(name)
  ELSE IF endsWith(name, "ies") THEN DropLast(name, 3) \o "y"
  ELSE IF endsWith(name, "es") THEN
    LET base == DropLast(name, 2)
        lastChar == LastChar(base)
    IN IF lastChar \in {"s", "x", "z"} \/ endsWith(base, "ch") \/ endsWith(base, "sh")
       THEN base
       ELSE DropLast(name, 1)
  ELSE IF endsWith(name, "s") THEN DropLast(name, 1)
  ELSE name

\* the copy of the function that Website carries as a method
_singularize(name) ==
  IF Falsy(name) THEN name
  ELSE LET table == [people |-> "person", children |-> "child", men |-> "men",
                     women |-> "woman", series |-> "series"]
       IN IF name \in DOMAIN table THEN table[name]
          ELSE IF endsWith(name, "ies") THEN DropLast(name, 3) \o "y"
          ELSE IF endsWith(name, "es") THEN
            LET base == DropLast(name, 2)
                lastChar == LastChar(base)
            IN IF \/ lastChar \in {"s", "x", "z"}
                  \/ endsWith(base, "ch") \/ endsWith(base, "sh")
               THEN base
               ELSE DropLast(name, 1)
          ELSE IF endsWith(name, "s") THEN DropLast(name, 1)
          ELSE name

\* the characters encodeURIComponent leaves alone, and those matched by \w
Unreserved == "abcdefghijklmnopqrstuvwxyzABCDEFGHIJKLMNOPQRSTUVWXYZ0123456789-_.!~*'()"
WordChars == "abcdefghijklmnopqrstuvwxyzABCDEFGHIJKLMNOPQRSTUVWXYZ0123456789_"
PercentCode(ch) ==
  CASE ch = " " -> "%20"
    [] ch = "/" -> "%2F"
    [] ch = "?" -> "%3F"
    [] ch = "&" -> "%26"
    [] ch = "=" -> "%3D"
    [] ch = "{" -> "%7B"
    [] ch = "}" -> "%7D"
    [] ch = ":" -> "%3A"
    [] OTHER -> "%.."   \* outside the table

RECURSIVE encodeURIComponent(_)
encodeURIComponent(s) ==
  IF s = "" THEN ""
  ELSE LET ch == SubSeq(s, 1, 1)
           rest == SubSeq(s, 2, Len(s))
       IN (IF includes(Unreserved, ch) THEN ch ELSE PercentCode(ch))
            \o encodeURIComponent(rest)

\* the length of the run of \w characters that s starts with
RECURSIVE WordRun(_)
WordRun(s) ==
  IF s = "" \/ ~includes(WordChars, SubSeq(s, 1, 1)) THEN 0
  ELSE 1 + WordRun(SubSeq(s, 2, Len(s)))

\* detail.replace(/\{(\w+)\}/g, ...): every {key} with key = paramName becomes
\* the encoded value, every other {key} stays as written
RECURSIVE ReplacePlaceholders(_, _, _)
ReplacePlaceholders(s, paramName, paramValue) ==
  IF s = "" THEN ""
  ELSE LET rest == SubSeq(s, 2, Len(s))
           n == WordRun(rest)
       IN IF SubSeq(s, 1, 1) = "{" /\ n > 0 /\ Len(rest) > n
               /\ SubSeq(rest, n + 1, n + 1) = "}"
          THEN LET key == SubSeq(rest, 1, n)
                   after == SubSeq(rest, n + 2, Len(rest))
               IN (IF key = paramName THEN encodeURIComponent(paramValue)
                   ELSE "{" \o key \o "}")
                    \o ReplacePlaceholders(after, paramName, paramValue)
          ELSE SubSeq(s, 1, 1) \o ReplacePlaceholders(rest, paramName, paramValue)

\* maps as functions
EmptyMap == [k \in {} |-> JsNull]
MapSet(m, k, v) == [x \in DOMAIN m \cup {k} |-> IF x = k THEN v ELSE m[x]]
MapDelete(m, k) == [x \in DOMAIN m \ {k} |-> m[x]]

\* ------------------------------------------------- what EntityStore is handed
\* a fetch property: absent, one config, or a list of configs
NoFetch == [t |-> "none", cfgs |-> << >>]
One(cfg) == [t |-> "one", cfgs |-> <<cfg>>]
List(cfgs) == [t |-> "list", cfgs |-> cfgs]

\* a dynamicContext: absent, or { paramName, paramValue, schema }
NoContext ==
  [present |-> FALSE, paramName |-> Undefined, paramValue |-> Undefined,
   schema |-> Undefined]
Context(paramName, paramValue, schema) ==
  [present |-> TRUE, paramName |-> paramName, paramValue |-> paramValue,
   schema |-> schema]

\* a page carries a fetch property and a dynamicContext; a block also carries
\* its page with that page's ancestors (pages[1] is block.page, pages[2] is
\* block.page.parent, and so on; no pages when block.page is null) and the
\* fetch property of the site config
Page(fetch, dynamicContext) == [fetch |-> fetch, dynamicContext |-> dynamicContext]
Block(fetch, dynamicContext, pages, site) ==
  [fetch |-> fetch, dynamicContext |-> dynamicContext, pages |-> pages,
   site |-> site]

\* component metadata: absent, or an object whose inheritData is undefined,
\* false, true, an array of schema names, or some other truthy value
Inherit(t, list) == [t |-> t, list |-> list]
Meta(inheritData) == [present |-> TRUE, inheritData |-> inheritData]
NullMeta == [present |-> FALSE, inheritData |-> Inherit("undefined", << >>)]

\* the result of resolve: { status, data } with data null or a bag
NullData == [isNull |-> TRUE, bag |-> EmptyMap]
Bag(bag) == [isNull |-> FALSE, bag |-> bag]
Answer(status, data) == [status |-> status, data |-> data]

NoNode == Block(NoFetch, NoContext, << >>, NoFetch)
NoMeta == NullMeta
NoAnswer == Answer("unasked", NullData)

\* -------------------------------------------------- EntityStore, cache apart
\* null, or the list of requested schema names (empty = all available)
NullList == [isNull |-> TRUE, list |-> << >>]
Requested(list) == [isNull |-> FALSE, list |-> list]

_getRequestedSchemas(m) ==
  IF ~m.present THEN NullList
  ELSE LET inheritData == m.inheritData IN
    IF inheritData.t \in {"undefined", "false"} THEN NullList
    ELSE IF inheritData.t = "array"
      THEN (IF Len(inheritData.list) > 0 THEN Requested(inheritData.list) ELSE NullList)
    ELSE IF inheritData.t = "true" THEN Requested(<< >>)
    ELSE NullList

\* the fetch property of the i-th page above the block, absent when there is
\* no such page
PageFetch(block, i) ==
  IF Len(block.pages) >= i THEN block.pages[i].fetch ELSE NoFetch

RECURSIVE Flatten(_)
Flatten(sources) ==
  IF sources = << >> THEN << >>
  ELSE Head(sources).cfgs \o Flatten(Tail(sources))

InList(list, x) == \E i \in 1..Len(list) : list[i] = x
MapHas(configs, schema) == \E i \in 1..Len(configs) : configs[i].schema = schema

\* a variant in which a later declaration of a schema replaces the earlier one
RECURSIVE Collect_LastWins(_, _, _)
Collect_LastWins(cfgs, configs, requested) ==
  IF cfgs = << >> THEN configs
  ELSE LET cfg == Head(cfgs)
           schema == GetField(cfg, "schema")
           entry == [schema |-> schema, cfg |-> cfg]
       IN IF Falsy(schema) THEN Collect_LastWins(Tail(cfgs), configs, requested)
          ELSE IF ~(requested = << >> \/ InList(requested, schema))
            THEN Collect_LastWins(Tail(cfgs), configs, requested)
          ELSE IF MapHas(configs, schema)
            THEN Collect_LastWins(Tail(cfgs),
                   [i \in 1..Len(configs) |->
                      IF configs[i].schema = schema THEN entry ELSE configs[i]],
                   requested)
          ELSE Collect_LastWins(Tail(cfgs), Append(configs, entry), requested)

\* the loop of lines 80-92 over the configs of all sources in order
RECURSIVE Collect(_, _, _)
Collect(cfgs, configs, requested) ==
  IF cfgs = << >> THEN configs
  ELSE LET cfg == Head(cfgs)
           schema == GetField(cfg, "schema")
       IN IF Falsy(schema) THEN Collect(Tail(cfgs), configs, requested)
          ELSE IF MapHas(configs, schema) THEN Collect(Tail(cfgs), configs, requested)
          ELSE IF requested = << >> \/ InList(requested, schema)
            THEN Collect(Tail(cfgs),
                         Append(configs, [schema |-> schema, cfg |-> cfg]),
                         requested)
          ELSE Collect(Tail(cfgs), configs, requested)

\* block.fetch, page.fetch, page.parent.fetch, site config fetch: those present
Sources(block) ==
  SelectSeq(<<block.fetch, PageFetch(block, 1), PageFetch(block, 2), block.site>>,
            LAMBDA s : s.t # "none")

\* the Map schema -> config, as the sequence of its entries in insertion order
_findFetchConfigs(block, requested) ==
  Collect(Flatten(Sources(block)), << >>, requested)

NullConfig == [isNull |-> TRUE, config |-> << >>]
Config(config) == [isNull |-> FALSE, config |-> config]

\* a variant that keeps the schema name as it is
SingularKey_Plural(schema) == schema

\* singularize(schema) || schema
SingularKey(schema) ==
  IF Falsy(singularize(schema)) THEN schema ELSE singularize(schema)

\* a synthesis that does not look at what the context and the declaration hold
_buildDetailConfig_Unguarded(collectionConfig, ctx) ==
  LET detail == GetField(collectionConfig, "detail")
      url == GetField(collectionConfig, "url")
      path == GetField(collectionConfig, "path")
      paramName == ctx.paramName
      paramValue == ctx.paramValue
      baseUrl == IF ~Falsy(url) THEN url ELSE path
      detailUrl ==
        IF detail = "rest"
          THEN (IF endsWith(baseUrl, "/") THEN DropLast(baseUrl, 1) ELSE baseUrl)
                 \o "/" \o encodeURIComponent(paramValue)
        ELSE IF detail = "query"
          THEN baseUrl \o (IF includes(baseUrl, "?") THEN "&" ELSE "?")
                 \o paramName \o "=" \o encodeURIComponent(paramValue)
        ELSE ReplacePlaceholders(detail, paramName, paramValue)
      isLocalPath == ~Falsy(path) /\ Falsy(url)
  IN IF Falsy(detail) THEN NullConfig
     ELSE Config(<< <<(IF isLocalPath THEN "path" ELSE "url"), detailUrl>>,
                    <<"schema", SingularKey(GetField(collectionConfig, "schema"))>>,
                    <<"transform", GetField(collectionConfig, "transform")>> >>)

_buildDetailConfig(collectionConfig, ctx) ==
  LET detail == GetField(collectionConfig, "detail")
      url == GetField(collectionConfig, "url")
      path == GetField(collectionConfig, "path")
      paramName == ctx.paramName
      paramValue == ctx.paramValue
      baseUrl == IF ~Falsy(url) THEN url ELSE path
      detailUrl ==
        IF detail = "rest"
          THEN (IF endsWith(baseUrl, "/") THEN DropLast(baseUrl, 1) ELSE baseUrl)
                 \o "/" \o encodeURIComponent(paramValue)
        ELSE IF detail = "query"
          THEN baseUrl \o (IF includes(baseUrl, "?") THEN "&" ELSE "?")
                 \o paramName \o "=" \o encodeURIComponent(paramValue)
        ELSE ReplacePlaceholders(detail, paramName, paramValue)
      isLocalPath == ~Falsy(path) /\ Falsy(url)
  IN IF Falsy(detail) THEN NullConfig
     ELSE IF Falsy(paramName) \/ paramValue = Undefined THEN NullConfig
     ELSE IF Falsy(baseUrl) THEN NullConfig
     ELSE Config(<< <<(IF isLocalPath THEN "path" ELSE "url"), detailUrl>>,
                    <<"schema", SingularKey(GetField(collectionConfig, "schema"))>>,
                    <<"transform", GetField(collectionConfig, "transform")>> >>)

\* block.dynamicContext || block.page?.dynamicContext
dynamicContext(block) ==
  IF block.dynamicContext.present THEN block.dynamicContext
  ELSE IF Len(block.pages) >= 1 THEN block.pages[1].dynamicContext
  ELSE NoContext

\* -------------------------------------------------------------------- state
VARIABLES
  fetcher,     \* DataStore._fetcher: "null" or "fn"
  cache,       \* DataStore._cache: key -> payload
  inflight,    \* DataStore._inflight: key -> promise (index into transports)
  transports,  \* one record per fetcher invocation: the promise of line 94
  callers,     \* one record per DataStore.fetch call: the promise it returned
  last,        \* whether clear() ran last, and on a store holding entries
  decl,        \* the declaration handed to set() when keys are compared
  node,        \* the block handed to EntityStore.resolve
  meta,        \* the component metadata handed to EntityStore.resolve
  answer,      \* what the last EntityStore.resolve call returned
  requests,    \* one record per EntityStore.fetch call: the promise it returned
  arg,         \* the arguments a function is applied to when checked on its own
  ret,         \* whether it has been applied, and what it returned
  website      \* the Website: its pages, locales and cache of dynamic pages

storeVars == <<fetcher, cache, inflight, transports, callers, last>>
vars == <<fetcher, cache, inflight, transports, callers, last, decl, node, meta, answer, requests, arg, ret, website>>

Other == [op |-> "other", full |-> FALSE]

NewStore ==
  /\ fetcher = "null"
  /\ cache = EmptyMap
  /\ inflight = EmptyMap
  /\ transports = << >>
  /\ callers = << >>
  /\ last = Other

\* a website of no pages
NoSite ==
  [pages |-> << >>, defaultLocale |-> "en", activeLocale |-> "en",
   locales |-> <<"en">>, routeTranslations |-> EmptyMap,
   dynamicPageCache |-> EmptyMap, materialized |-> EmptyMap]

\* no function is being applied on its own
NotApplied == [done |-> FALSE]
Returned(value) == [done |-> TRUE, value |-> value]
NoCall ==
  /\ arg = << >>
  /\ ret = NotApplied
  /\ website = NoSite

\* the store driven on its own: no block is being resolved
NoEntity ==
  /\ node = NoNode
  /\ meta = NoMeta
  /\ answer = NoAnswer
  /\ requests = << >>
  /\ NoCall

Init ==
  /\ NewStore
  /\ decl = << >>
  /\ NoEntity

\* ---------------------------------------------------------------- DataStore
registerFetcher ==
  /\ fetcher = "null"
  /\ fetcher' = "fn"
  /\ last' = Other
  /\ UNCHANGED <<cache, inflight, transports, callers, decl, node, meta, answer, requests, arg, ret, website>>

has(config) == cacheKey(config) \in DOMAIN cache

get(config) ==
  LET key == cacheKey(config) IN
  IF key \in DOMAIN cache THEN cache[key] ELSE JsNull

set(config, data) ==
  /\ cache' = MapSet(cache, cacheKey(config), data)
  /\ last' = Other
  /\ UNCHANGED <<fetcher, inflight, transports, callers, decl, node, meta, answer, requests, arg, ret, website>>

\* the promise an "async fetch" call hands back to its caller
Caller(key, via, handle, state, value) ==
  [key |-> key, via |-> via, handle |-> handle, state |-> state, value |-> value]

Transport(key) ==
  [key |-> key, state |-> "pending", result |-> NoResult, orphaned |-> FALSE]

Pending(t) == transports[t].state = "pending"

\* a fetch that asks the fetcher although the key is in flight
fetch_NoDedup(config) ==
  /\ Len(callers) < MaxCalls
  /\ last' = Other
  /\ UNCHANGED <<decl, node, meta, answer, requests, arg, ret, website>>
  /\ LET key == cacheKey(config) IN
     IF fetcher = "null" THEN
       /\ callers' = Append(callers, Caller(key, "throw", 0, "rejected", ConfigError))
       /\ UNCHANGED <<fetcher, cache, inflight, transports>>
     ELSE IF key \in DOMAIN cache THEN
       /\ callers' = Append(callers, Caller(key, "hit", 0, "fulfilled",
                                            [data |-> cache[key], error |-> Undefined]))
       /\ UNCHANGED <<fetcher, cache, inflight, transports>>
     ELSE
       LET t == Len(transports) + 1 IN
       /\ transports' = Append(transports, Transport(key))
       /\ inflight' = MapSet(inflight, key, t)
       /\ callers' = Append(callers, Caller(key, "miss", t, "waiting", NoResult))
       /\ UNCHANGED <<fetcher, cache>>

\* a fetch that looks at the cache before it looks for the fetcher
fetch_CacheFirst(config) ==
  /\ Len(callers) < MaxCalls
  /\ last' = Other
  /\ UNCHANGED <<decl, node, meta, answer, requests, arg, ret, website>>
  /\ LET key == cacheKey(config) IN
     IF key \in DOMAIN cache THEN
       /\ callers' = Append(callers, Caller(key, "hit", 0, "fulfilled",
                                            [data |-> cache[key], error |-> Undefined]))
       /\ UNCHANGED <<fetcher, cache, inflight, transports>>
     ELSE IF fetcher = "null" THEN
       /\ callers' = Append(callers, Caller(key, "throw", 0, "rejected", ConfigError))
       /\ UNCHANGED <<fetcher, cache, inflight, transports>>
     ELSE IF key \in DOMAIN inflight THEN
       /\ callers' = Append(callers, Caller(key, "join", inflight[key], "waiting", NoResult))
       /\ UNCHANGED <<fetcher, cache, inflight, transports>>
     ELSE
       LET t == Len(transports) + 1 IN
       /\ transports' = Append(transports, Transport(key))
       /\ inflight' = MapSet(inflight, key, t)
       /\ callers' = Append(callers, Caller(key, "miss", t, "waiting", NoResult))
       /\ UNCHANGED <<fetcher, cache>>

\* a fetch that goes to the fetcher although the key is cached
fetch_IgnoreCache(config) ==
  /\ Len(callers) < MaxCalls
  /\ last' = Other
  /\ UNCHANGED <<decl, node, meta, answer, requests, arg, ret, website>>
  /\ LET key == cacheKey(config) IN
     IF fetcher = "null" THEN
       /\ callers' = Append(callers, Caller(key, "throw", 0, "rejected", ConfigError))
       /\ UNCHANGED <<fetcher, cache, inflight, transports>>
     ELSE IF key \in DOMAIN inflight THEN
       /\ callers' = Append(callers, Caller(key, "join", inflight[key], "waiting", NoResult))
       /\ UNCHANGED <<fetcher, cache, inflight, transports>>
     ELSE
       LET t == Len(transports) + 1 IN
       /\ transports' = Append(transports, Transport(key))
       /\ inflight' = MapSet(inflight, key, t)
       /\ callers' = Append(callers, Caller(key, "miss", t, "waiting", NoResult))
       /\ UNCHANGED <<fetcher, cache>>

\* async fetch(config): the synchronous part of the call.  The function is
\* async, so the throw of line 78 reaches the caller as an already rejected
\* promise, and a promise it returns is followed by the promise of the call
\* (deliver).  The fetcher is asked and its promise stored in one turn.
fetch(config) ==
  /\ Len(callers) < MaxCalls
  /\ last' = Other
  /\ UNCHANGED <<decl, node, meta, answer, requests, arg, ret, website>>
  /\ LET key == cacheKey(config) IN
     IF fetcher = "null" THEN
       /\ callers' = Append(callers, Caller(key, "throw", 0, "rejected", ConfigError))
       /\ UNCHANGED <<fetcher, cache, inflight, transports>>
     ELSE IF key \in DOMAIN cache THEN
       /\ callers' = Append(callers, Caller(key, "hit", 0, "fulfilled",
                                            [data |-> cache[key], error |-> Undefined]))
       /\ UNCHANGED <<fetcher, cache, inflight, transports>>
     ELSE IF key \in DOMAIN inflight THEN
       /\ callers' = Append(callers, Caller(key, "join", inflight[key], "waiting", NoResult))
       /\ UNCHANGED <<fetcher, cache, inflight, transports>>
     ELSE
       LET t == Len(transports) + 1 IN
       /\ transports' = Append(transports, Transport(key))
       /\ inflight' = MapSet(inflight, key, t)
       /\ callers' = Append(callers, Caller(key, "miss", t, "waiting", NoResult))
       /\ UNCHANGED <<fetcher, cache>>

\* a settlement that takes null for data
settle_CacheNull(t, outcome) ==
  /\ t \in DOMAIN transports
  /\ Pending(t)
  /\ last' = Other
  /\ transports' = [transports EXCEPT ![t].state = outcome.kind,
                                      ![t].result = outcome.result]
  /\ IF outcome.kind = "fulfilled" THEN
       /\ inflight' = MapDelete(inflight, transports[t].key)
       /\ IF HasData_NullIsData(outcome.result.data)
            THEN cache' = MapSet(cache, transports[t].key, outcome.result.data)
            ELSE cache' = cache
     ELSE UNCHANGED <<inflight, cache>>
  /\ UNCHANGED <<fetcher, callers, decl, node, meta, answer, requests, arg, ret, website>>

\* a settlement that drops the result of a call made before a clear
settle_Generation(t, outcome) ==
  /\ t \in DOMAIN transports
  /\ Pending(t)
  /\ last' = Other
  /\ transports' = [transports EXCEPT ![t].state = outcome.kind,
                                      ![t].result = outcome.result]
  /\ IF outcome.kind = "fulfilled" /\ ~transports[t].orphaned THEN
       /\ inflight' = MapDelete(inflight, transports[t].key)
       /\ IF HasData(outcome.result.data)
            THEN cache' = MapSet(cache, transports[t].key, outcome.result.data)
            ELSE cache' = cache
     ELSE UNCHANGED <<inflight, cache>>
  /\ UNCHANGED <<fetcher, callers, decl, node, meta, answer, requests, arg, ret, website>>

\* The promise of the fetcher settles.  Fulfilled: the then-callback of
\* lines 94-100 runs and the promise kept in the in-flight table is fulfilled
\* with the same result.  Rejected: the callback is skipped and the promise
\* kept in the table is rejected.
settle(t, outcome) ==
  /\ t \in DOMAIN transports
  /\ Pending(t)
  /\ last' = Other
  /\ transports' = [transports EXCEPT ![t].state = outcome.kind,
                                      ![t].result = outcome.result]
  /\ IF outcome.kind = "fulfilled" THEN
       /\ inflight' = MapDelete(inflight, transports[t].key)
       /\ IF HasData(outcome.result.data)
            THEN cache' = MapSet(cache, transports[t].key, outcome.result.data)
            ELSE cache' = cache
     ELSE UNCHANGED <<inflight, cache>>
  /\ UNCHANGED <<fetcher, callers, decl, node, meta, answer, requests, arg, ret, website>>

\* The promise of a fetch call follows the promise the call returned: the
\* await of the caller resumes with the same result or the same rejection.
deliver(c) ==
  /\ c \in DOMAIN callers
  /\ callers[c].state = "waiting"
  /\ ~Pending(callers[c].handle)
  /\ last' = Other
  /\ callers' = [callers EXCEPT ![c].state = transports[callers[c].handle].state,
                                ![c].value = transports[callers[c].handle].result]
  /\ UNCHANGED <<fetcher, cache, inflight, transports, decl, node, meta, answer, requests, arg, ret, website>>

\* history: clear() ran last, full says whether both maps held an entry
Cleared == [op |-> "clear", full |-> cache # EmptyMap /\ inflight # EmptyMap]

\* what clear() does to the fetcher calls still outstanding: nothing.  The
\* orphaned flag is history, not program state: it marks the calls that were
\* outstanding when clear() ran.
Orphan(ts) ==
  [t \in DOMAIN ts |-> IF ts[t].state = "pending"
                         THEN [ts[t] EXCEPT !.orphaned = TRUE] ELSE ts[t]]

\* a clear that flushes the cache only
clear_CacheOnly ==
  /\ cache' = EmptyMap
  /\ last' = Cleared
  /\ transports' = transports
  /\ UNCHANGED <<fetcher, inflight, callers, decl, node, meta, answer, requests, arg, ret, website>>

\* a clear that cancels the callers still waiting
clear_Cancel ==
  /\ cache' = EmptyMap
  /\ inflight' = EmptyMap
  /\ last' = Cleared
  /\ transports' = Orphan(transports)
  /\ callers' = [c \in DOMAIN callers |->
                   IF callers[c].state = "waiting"
                     THEN [callers[c] EXCEPT !.state = "rejected",
                                             !.value = [data |-> JsUndefined,
                                                        error |-> "cancelled"]]
                     ELSE callers[c]]
  /\ UNCHANGED <<fetcher, decl, node, meta, answer, requests, arg, ret, website>>

clear ==
  /\ cache' = EmptyMap
  /\ inflight' = EmptyMap
  /\ last' = Cleared
  /\ transports' = Orphan(transports)
  /\ UNCHANGED <<fetcher, callers, decl, node, meta, answer, requests, arg, ret, website>>

Next ==
  \/ registerFetcher
  \/ \E config \in StoreConfigs, data \in SetValues : set(config, data)
  \/ \E config \in StoreConfigs : fetch(config)
  \/ \E t \in 1..MaxCalls, outcome \in Outcomes : settle(t, outcome)
  \/ \E c \in 1..MaxCalls : deliver(c)
  \/ clear

Spec == Init /\ [][Next]_vars

\* the event loop runs every continuation of a settled promise
FairSpec == Spec /\ WF_vars(\E c \in 1..MaxCalls : deliver(c))

\* ------------------------------------------------------- keys of declarations
\* the fields a declaration may carry and the values tried for each
Fields == {"path", "url", "schema", "transform", "detail"}
FieldValues(f) ==
  CASE f = "path" -> {"/data/a.json", "/data/b.json"}
    [] f = "url" -> {"/data/a.json"}
    [] f = "schema" -> {"articles"}
    [] f = "transform" -> {Undefined, "data.items"}
    [] f = "detail" -> {"rest"}

\* every way to write a declaration of at most MaxFields distinct fields:
\* the orders of the fields, then the values of each
RECURSIVE FieldOrders(_)
FieldOrders(n) ==
  IF n = 0 THEN {<< >>}
  ELSE LET shorter == FieldOrders(n - 1) IN
       shorter \cup {Append(s, f) : s \in {x \in shorter : Len(x) = n - 1},
                                    f \in Fields} 

RECURSIVE Writings(_)
Writings(s) ==
  IF s = << >> THEN {<< >>}
  ELSE {<< <<Head(s), v>> >> \o w : v \in FieldValues(Head(s)), w \in Writings(Tail(s))}

ConfigSpace ==
  UNION {Writings(s) : s \in {x \in FieldOrders(MaxFields) :
                                \A i, j \in DOMAIN x : i # j => x[i] # x[j]}}

\* a store whose fetcher is registered, and one declaration as written
KeyInit ==
  /\ fetcher = "fn"
  /\ cache = EmptyMap
  /\ inflight = EmptyMap
  /\ transports = << >>
  /\ callers = << >>
  /\ last = Other
  /\ decl \in ConfigSpace
  /\ NoEntity

\* the declaration is stored with set() and fetched once
KeyNext ==
  \/ \E data \in SetValues : set(decl, data)
  \/ callers = << >> /\ fetch(decl)

KeySpec == KeyInit /\ [][KeyNext]_vars

\* ------------------------------------------------- EntityStore over the cache
\* item[f]: a field that is not there reads as undefined
ItemField(item, f) ==
  IF f \in DOMAIN item THEN item[f] ELSE [t |-> "undefined", s |-> Undefined]

\* a find that keeps the last item that passes the test
find_Last(items, paramName, paramValue) ==
  LET found == {i \in 1..Len(items) :
                  String(ItemField(items[i], paramName)) = paramValue}
  IN IF found = {} THEN 0 ELSE CHOOSE i \in found : \A j \in found : j <= i

\* items.find(item => String(item[paramName]) === String(paramValue)): the
\* index of the item found, 0 for none (paramValue is a string already)
find(items, paramName, paramValue) ==
  LET found == {i \in 1..Len(items) :
                  String(ItemField(items[i], paramName)) = paramValue}
  IN IF found = {} THEN 0 ELSE CHOOSE i \in found : \A j \in found : i <= j

_resolveSingularItem(data, ctx) ==
  IF ~ctx.present THEN data
  ELSE LET paramName == ctx.paramName
           paramValue == ctx.paramValue
           pluralSchema == ctx.schema
       IN IF Falsy(pluralSchema) \/ Falsy(paramName) \/ paramValue = Undefined
            THEN data
          ELSE IF pluralSchema \notin DOMAIN data THEN data
          ELSE IF data[pluralSchema].t # "array" THEN data
          ELSE LET items == data[pluralSchema].items
                   singularSchema == singularize(pluralSchema)
                   currentItem == find(items, paramName, paramValue)
               IN IF currentItem # 0 /\ ~Falsy(singularSchema)
                  THEN MapSet(data, singularSchema, JsObject(items[currentItem]))
                  ELSE data

\* the loop of lines 193-208 over the entries of the Map, in order
RECURSIVE CheckCache(_, _, _)
CheckCache(configs, ctx, acc) ==
  IF configs = << >> THEN acc
  ELSE LET schema == Head(configs).schema
           cfg == Head(configs).cfg
           detailCfg == _buildDetailConfig(cfg, ctx)
       IN IF has(cfg)
            THEN CheckCache(Tail(configs), ctx,
                            [acc EXCEPT !.data = MapSet(acc.data, schema, get(cfg))])
          ELSE IF ctx.present /\ ~Falsy(GetField(cfg, "detail"))
            THEN (IF ~detailCfg.isNull /\ has(detailCfg.config)
                  THEN CheckCache(Tail(configs), ctx,
                         [acc EXCEPT !.data = MapSet(acc.data, SingularKey(schema),
                                                     get(detailCfg.config))])
                  ELSE CheckCache(Tail(configs), ctx, [acc EXCEPT !.allCached = FALSE]))
          ELSE CheckCache(Tail(configs), ctx, [acc EXCEPT !.allCached = FALSE])

\* a variant that hands out whatever is cached and never answers 'pending'
resolve_Optimistic(block, m) ==
  LET requested == _getRequestedSchemas(m) IN
  IF requested.isNull THEN Answer("none", NullData)
  ELSE LET configs == _findFetchConfigs(block, requested.list) IN
    IF configs = << >> THEN Answer("none", NullData)
    ELSE LET ctx == dynamicContext(block)
             checked == CheckCache(configs, ctx, [data |-> EmptyMap, allCached |-> TRUE])
         IN Answer("ready", Bag(_resolveSingularItem(checked.data, ctx)))

resolve(block, m) ==
  LET requested == _getRequestedSchemas(m) IN
  IF requested.isNull THEN Answer("none", NullData)
  ELSE LET configs == _findFetchConfigs(block, requested.list) IN
    IF configs = << >> THEN Answer("none", NullData)
    ELSE LET ctx == dynamicContext(block)
             checked == CheckCache(configs, ctx, [data |-> EmptyMap, allCached |-> TRUE])
         IN IF checked.allCached
            THEN Answer("ready", Bag(_resolveSingularItem(checked.data, ctx)))
            ELSE Answer("pending", NullData)

Resolved == [op |-> "resolve", full |-> FALSE]

\* a resolve that asks the fetcher for the first declaration it misses
Resolve_Prefetch ==
  /\ answer' = resolve(node, meta)
  /\ last' = [op |-> "resolve", full |-> FALSE]
  /\ LET requested == _getRequestedSchemas(meta)
         configs == IF requested.isNull THEN << >>
                    ELSE _findFetchConfigs(node, requested.list)
     IN IF configs # << >> /\ fetcher = "fn" /\ Len(transports) < MaxCalls
           /\ ~has(configs[1].cfg)
          THEN /\ transports' = Append(transports, Transport(cacheKey(configs[1].cfg)))
               /\ inflight' = MapSet(inflight, cacheKey(configs[1].cfg),
                                     Len(transports) + 1)
          ELSE UNCHANGED <<transports, inflight>>
  /\ UNCHANGED <<fetcher, cache, callers, decl, node, meta, requests, arg, ret, website>>


\* one call of entityStore.resolve(node, meta)
Resolve ==
  /\ answer' = resolve(node, meta)
  /\ last' = Resolved
  /\ UNCHANGED <<fetcher, cache, inflight, transports, callers, decl, node, meta, requests, arg, ret, website>>

\* ------------------------------------------------------- blocks to resolve
CfgArticlesApi == << <<"url", "/api/articles">>, <<"schema", "articles">> >>
CfgTeamsSite == << <<"path", "/data/teams.json">>, <<"schema", "teams">> >>
CfgNoSchema == << <<"path", "/data/misc.json">> >>
CfgSeries == << <<"path", "/data/series.json">>, <<"schema", "series">> >>
CfgRest ==
  << <<"path", "/api/articles/">>, <<"schema", "articles">>, <<"detail", "rest">> >>
CfgQuery ==
  << <<"url", "/api/articles?lang=en">>, <<"schema", "articles">>,
     <<"detail", "query">>, <<"transform", "data.items">> >>
CfgCustom ==
  << <<"url", "/api/articles">>, <<"schema", "articles">>,
     <<"detail", "/api/article/{slug}?v={version}">> >>

CtxA == Context("slug", "a", "articles")
CtxB == Context("slug", "b", "articles")
CtxNoValue == Context("slug", Undefined, "articles")
CtxSeries == Context("slug", "a", "series")

BlockFetches == {NoFetch, List(<<CfgNoSchema, CfgArticles, CfgTeams, CfgArticlesAlt>>)}
BlockContexts == {NoContext, CtxB}
SiteFetches == {NoFetch, One(CfgTeamsSite)}
PageChains ==
  { << >>,
    <<Page(One(CfgArticlesApi), NoContext)>>,
    <<Page(NoFetch, CtxA), Page(One(CfgRest), NoContext)>>,
    <<Page(NoFetch, CtxA), Page(One(CfgQuery), NoContext)>>,
    <<Page(NoFetch, CtxA), Page(One(CfgCustom), NoContext)>>,
    <<Page(NoFetch, CtxNoValue), Page(One(CfgRest), NoContext)>>,
    <<Page(NoFetch, CtxSeries), Page(One(CfgSeries), NoContext)>>,
    <<Page(NoFetch, NoContext), Page(NoFetch, NoContext),
      Page(One(CfgArticlesApi), NoContext)>> }

Nodes ==
  {Block(f, c, p, s) : f \in BlockFetches, c \in BlockContexts,
                       p \in PageChains, s \in SiteFetches}

Metas ==
  { NullMeta,
    Meta(Inherit("undefined", << >>)),
    Meta(Inherit("false", << >>)),
    Meta(Inherit("string", << >>)),
    Meta(Inherit("true", << >>)),
    Meta(Inherit("array", << >>)),
    Meta(Inherit("array", <<"articles">>)),
    Meta(Inherit("array", <<"teams", "articles">>)) }

\* what the cache is filled with: a collection and a single record
ResolveValues == {JsArray(<<ItemB, ItemA>>), JsObject(ItemA)}

\* every config written anywhere on the block, its pages or the site, and the
\* detail configs built from them for the block's dynamic context
WrittenConfigs(block) ==
  LET pageFetches == [i \in 1..Len(block.pages) |-> block.pages[i].fetch]
      all == Flatten(<<block.fetch>> \o pageFetches \o <<block.site>>)
  IN {all[i] : i \in 1..Len(all)}
NodeConfigs(block) ==
  WrittenConfigs(block) \cup
  {_buildDetailConfig(cfg, dynamicContext(block)).config :
     cfg \in {c \in WrittenConfigs(block) :
                ~_buildDetailConfig(c, dynamicContext(block)).isNull}}

ResolveInit ==
  /\ NewStore
  /\ decl = << >>
  /\ node \in Nodes
  /\ meta \in Metas
  /\ answer = NoAnswer
  /\ requests = << >>
  /\ NoCall

\* the cache is filled entry by entry, and the block is resolved at any time
ResolveNext ==
  \/ \E config \in NodeConfigs(node), data \in ResolveValues :
       /\ Cardinality(DOMAIN cache) < MaxCached
       /\ set(config, data)
  \/ Resolve

ResolveSpec == ResolveInit /\ [][ResolveNext]_vars

\* ------------------------------------------------------- EntityStore.fetch
\* DataStore.fetch as a function of the store: what one call adds to the
\* in-flight table, the fetcher invocations and the promises handed back
StoreOf(i, t, c) == [inflight |-> i, transports |-> t, callers |-> c]

dataStoreFetch(st, config) ==
  LET key == cacheKey(config) IN
  IF fetcher = "null" THEN
    [st EXCEPT !.callers = Append(@, Caller(key, "throw", 0, "rejected", ConfigError))]
  ELSE IF key \in DOMAIN cache THEN
    [st EXCEPT !.callers = Append(@, Caller(key, "hit", 0, "fulfilled",
                                            [data |-> cache[key], error |-> Undefined]))]
  ELSE IF key \in DOMAIN st.inflight THEN
    [st EXCEPT !.callers = Append(@, Caller(key, "join", st.inflight[key],
                                            "waiting", NoResult))]
  ELSE
    LET t == Len(st.transports) + 1 IN
    [st EXCEPT !.transports = Append(@, Transport(key)),
               !.inflight = MapSet(@, key, t),
               !.callers = Append(@, Caller(key, "miss", t, "waiting", NoResult))]

\* one entry of fetchPromises: the bag key its callback writes, the promise
\* of the DataStore.fetch call it waits for, and whether the callback has run
Part(key, caller) == [key |-> key, caller |-> caller, done |-> FALSE]

\* the loop of lines 241-268: a detail request for a declaration with a detail
\* convention whose collection is not cached, the collection otherwise
RECURSIVE FetchAll(_, _, _)
FetchAll(configs, ctx, acc) ==
  IF configs = << >> THEN acc
  ELSE LET schema == Head(configs).schema
           cfg == Head(configs).cfg
           detailCfg == _buildDetailConfig(cfg, ctx)
           useDetail == /\ ctx.present
                        /\ ~Falsy(GetField(cfg, "detail"))
                        /\ ~has(cfg)
                        /\ ~detailCfg.isNull
           st == dataStoreFetch(acc.st, IF useDetail THEN detailCfg.config ELSE cfg)
       IN FetchAll(Tail(configs), ctx,
                   [st |-> st,
                    parts |-> Append(acc.parts,
                                     Part(IF useDetail THEN SingularKey(schema) ELSE schema,
                                          Len(st.callers)))])

\* the promise of an EntityStore.fetch call: its fetchPromises, the data
\* object the callbacks fill, and what the call settled with
Request(parts, state, result) ==
  [parts |-> parts, data |-> EmptyMap, state |-> state, result |-> result]

\* a variant that asks the store for the collection whatever the context
EntityStore_fetch_NoDetail(block, m) ==
  /\ Len(requests) < MaxCalls
  /\ last' = Other
  /\ UNCHANGED <<fetcher, cache, decl, node, meta, answer, arg, ret, website>>
  /\ LET requested == _getRequestedSchemas(m)
         configs == _findFetchConfigs(block, requested.list)
         done == FetchAll(configs, NoContext,
                          [st |-> StoreOf(inflight, transports, callers), parts |-> << >>])
     IN IF requested.isNull \/ configs = << >>
        THEN /\ requests' = Append(requests, Request(<< >>, "fulfilled", NullData))
             /\ UNCHANGED <<inflight, transports, callers>>
        ELSE /\ Len(callers) + Len(configs) <= MaxCalls
             /\ inflight' = done.st.inflight
             /\ transports' = done.st.transports
             /\ callers' = done.st.callers
             /\ requests' = Append(requests, Request(done.parts, "waiting", NullData))

\* EntityStore.fetch up to its await: every DataStore.fetch call is made in
\* the one synchronous run of the loop
EntityStore_fetch(block, m) ==
  /\ Len(requests) < MaxCalls
  /\ last' = Other
  /\ UNCHANGED <<fetcher, cache, decl, node, meta, answer, arg, ret, website>>
  /\ LET requested == _getRequestedSchemas(m)
         configs == _findFetchConfigs(block, requested.list)
         done == FetchAll(configs, dynamicContext(block),
                          [st |-> StoreOf(inflight, transports, callers), parts |-> << >>])
     IN IF requested.isNull \/ configs = << >>
        THEN /\ requests' = Append(requests, Request(<< >>, "fulfilled", NullData))
             /\ UNCHANGED <<inflight, transports, callers>>
        ELSE /\ Len(callers) + Len(configs) <= MaxCalls
             /\ inflight' = done.st.inflight
             /\ transports' = done.st.transports
             /\ callers' = done.st.callers
             /\ requests' = Append(requests, Request(done.parts, "waiting", NullData))

\* the callback of one fetchPromises entry (lines 249-254 and 262-266)
EntityStore_then(r, i) ==
  /\ r \in DOMAIN requests
  /\ i \in DOMAIN requests[r].parts
  /\ requests[r].state = "waiting"
  /\ ~requests[r].parts[i].done
  /\ callers[requests[r].parts[i].caller].state = "fulfilled"
  /\ LET part == requests[r].parts[i]
         result == callers[part.caller].value
     IN requests' = [requests EXCEPT
          ![r].parts[i].done = TRUE,
          ![r].data = IF HasData(result.data) THEN MapSet(@, part.key, result.data) ELSE @]
  /\ last' = Other
  /\ UNCHANGED <<fetcher, cache, inflight, transports, callers, decl, node, meta, answer, arg, ret, website>>

\* Promise.all fulfilled: lines 273-274
EntityStore_return(r) ==
  /\ r \in DOMAIN requests
  /\ requests[r].state = "waiting"
  /\ \A i \in DOMAIN requests[r].parts : requests[r].parts[i].done
  /\ requests' = [requests EXCEPT
       ![r].state = "fulfilled",
       ![r].result = Bag(_resolveSingularItem(requests[r].data, dynamicContext(node)))]
  /\ last' = Other
  /\ UNCHANGED <<fetcher, cache, inflight, transports, callers, decl, node, meta, answer, arg, ret, website>>

\* Promise.all rejected by one of the DataStore.fetch promises: the await of
\* line 271 throws and the call's promise is rejected
EntityStore_throw(r) ==
  /\ r \in DOMAIN requests
  /\ requests[r].state = "waiting"
  /\ \E i \in DOMAIN requests[r].parts :
       callers[requests[r].parts[i].caller].state = "rejected"
  /\ requests' = [requests EXCEPT ![r].state = "rejected"]
  /\ last' = Other
  /\ UNCHANGED <<fetcher, cache, inflight, transports, callers, decl, node, meta, answer, arg, ret, website>>

\* the other evolution of the class (lines 278-506): every ancestor page is a
\* source, and there is no detail request.  The blocks fetched carry a page
\* and no cascadedData, so lines 475-484 contribute nothing.
RECURSIVE AncestorFetches(_, _)
AncestorFetches(block, i) ==
  IF i > Len(block.pages) THEN << >>
  ELSE <<block.pages[i].fetch>> \o AncestorFetches(block, i + 1)

Sources_fullChain(block) ==
  SelectSeq(<<block.fetch>> \o AncestorFetches(block, 1) \o <<block.site>>,
            LAMBDA s : s.t # "none")

_findFetchConfigs_fullChain(block, requested) ==
  Collect(Flatten(Sources_fullChain(block)), << >>, requested)

EntityStore_fetch_fullChain(block, m) ==
  /\ Len(requests) < MaxCalls
  /\ last' = Other
  /\ UNCHANGED <<fetcher, cache, decl, node, meta, answer, arg, ret, website>>
  /\ LET requested == _getRequestedSchemas(m)
         configs == _findFetchConfigs_fullChain(block, requested.list)
         done == FetchAll(configs, NoContext,
                          [st |-> StoreOf(inflight, transports, callers), parts |-> << >>])
     IN IF requested.isNull \/ configs = << >>
        THEN /\ requests' = Append(requests, Request(<< >>, "fulfilled", NullData))
             /\ UNCHANGED <<inflight, transports, callers>>
        ELSE /\ Len(callers) + Len(configs) <= MaxCalls
             /\ inflight' = done.st.inflight
             /\ transports' = done.st.transports
             /\ callers' = done.st.callers
             /\ requests' = Append(requests, Request(done.parts, "waiting", NullData))

\* ---------------------------------------------------------- blocks to fetch
\* articles declared twice in the block's list, again on the page; teams on
\* the parent page and on the site
NodeLevels ==
  Block(List(<<CfgArticles, CfgArticlesApi>>), NoContext,
        <<Page(One(CfgArticlesApi), NoContext), Page(One(CfgTeams), NoContext)>>,
        One(CfgTeamsSite))
\* articles on the page, again on the parent page
NodePages ==
  Block(NoFetch, NoContext,
        <<Page(One(CfgArticlesApi), NoContext),
          Page(List(<<CfgArticles, CfgTeams>>), NoContext)>>,
        One(CfgTeamsSite))
\* articles on the grandparent page only
NodeGrandparent ==
  Block(NoFetch, NoContext,
        <<Page(NoFetch, NoContext), Page(NoFetch, NoContext),
          Page(One(CfgArticles), NoContext)>>,
        NoFetch)
\* articles on the grandparent page, teams on the site
NodeGrandparentSite ==
  Block(NoFetch, NoContext,
        <<Page(NoFetch, NoContext), Page(NoFetch, NoContext),
          Page(One(CfgArticles), NoContext)>>,
        One(CfgTeamsSite))
\* a page of a dynamic route under a listing page with a detail convention
NodeDetail(cfg, ctx) ==
  Block(NoFetch, NoContext, <<Page(NoFetch, ctx), Page(One(cfg), NoContext)>>, NoFetch)

EntityNodes ==
  { NodeLevels, NodePages, NodeGrandparent, NodeGrandparentSite,
    NodeDetail(CfgRest, CtxA), NodeDetail(CfgQuery, CtxA),
    NodeDetail(CfgCustom, CtxA), NodeDetail(CfgRest, CtxNoValue),
    NodeDetail(CfgArticlesApi, CtxB) }

EntityMetas ==
  { NullMeta,
    Meta(Inherit("true", << >>)),
    Meta(Inherit("array", <<"articles">>)),
    Meta(Inherit("array", <<"teams", "articles">>)) }

\* what the fetcher answers: a collection, a record, nothing, a rejection
EntityOutcomes ==
  { [kind |-> "fulfilled",
     result |-> [data |-> JsArray(<<ItemB, ItemA>>), error |-> Undefined]],
    [kind |-> "fulfilled",
     result |-> [data |-> JsObject(ItemA), error |-> Undefined]],
    [kind |-> "fulfilled",
     result |-> [data |-> JsNull, error |-> "Not found"]],
    [kind |-> "rejected",
     result |-> [data |-> JsUndefined, error |-> "transport failed"]] }

EntityInit ==
  /\ NewStore
  /\ decl = << >>
  /\ node \in EntityNodes
  /\ meta \in EntityMetas
  /\ answer = NoAnswer
  /\ requests = << >>
  /\ NoCall

\* what happens around a block besides the fetch itself
EntityEnv ==
  \/ registerFetcher
  \/ \E config \in NodeConfigs(node), data \in SetValues :
       /\ Cardinality(DOMAIN cache) < MaxCached
       /\ set(config, data)
  \/ \E t \in 1..MaxCalls, outcome \in EntityOutcomes : settle(t, outcome)
  \/ \E c \in 1..MaxCalls : deliver(c)
  \/ \E r \in 1..MaxCalls, i \in 1..MaxCalls : EntityStore_then(r, i)
  \/ \E r \in 1..MaxCalls : EntityStore_return(r)
  \/ \E r \in 1..MaxCalls : EntityStore_throw(r)

EntityNext ==
  \/ EntityStore_fetch(node, meta)
  \/ EntityEnv

EntitySpec == EntityInit /\ [][EntityNext]_vars

\* the same block handed to the store that walks every ancestor
ChainNext ==
  \/ EntityStore_fetch_fullChain(node, meta)
  \/ EntityEnv

ChainSpec == EntityInit /\ [][ChainNext]_vars

\* ------------------------------------------------------ detail synthesis
\* a custom detail template as its parts: literal text and {name} placeholders
Lit(text) == [ph |-> FALSE, text |-> text]
Ph(name) == [ph |-> TRUE, text |-> name]

\* the template as it is written in a declaration
RECURSIVE Written(_)
Written(parts) ==
  IF parts = << >> THEN ""
  ELSE (IF Head(parts).ph THEN "{" \o Head(parts).text \o "}" ELSE Head(parts).text)
         \o Written(Tail(parts))

Templates ==
  { <<Lit("/api/article/"), Ph("slug"), Lit("?v="), Ph("version")>>,
    <<Lit("/api/"), Ph("id"), Lit("/by-"), Ph("slug"), Lit("/"), Ph("slug")>>,
    <<Lit("/x/{}/{"), Ph("slug"), Lit("}.json")>> }

DetailAddresses ==
  { << <<"url", "/api/articles">> >>,
    << <<"path", "/api/articles/">> >>,
    << <<"url", "/api/articles?lang=en">> >>,
    << <<"path", "/data/articles.json">>, <<"url", "/api/articles">> >> }
DetailConventions == {"rest", "query"} \cup {Written(parts) : parts \in Templates}
DetailSchemas == {"articles", "categories", "boxes", "series", "s"}
DetailTransforms == {Undefined, "data.items"}

DetailConfigs ==
  {address \o << <<"schema", schema>>, <<"detail", detail>>, <<"transform", transform>> >> :
     address \in DetailAddresses, schema \in DetailSchemas,
     detail \in DetailConventions, transform \in DetailTransforms}
DetailContexts ==
  {Context(paramName, paramValue, "articles") :
     paramName \in {"slug", "id"}, paramValue \in {"hello", "a b/c", "x?y=1&z"}}

\* the store and the entity store at rest while a function is applied
Idle ==
  /\ NewStore
  /\ decl = << >>
  /\ node = NoNode
  /\ meta = NoMeta
  /\ answer = NoAnswer
  /\ requests = << >>

DetailInit ==
  /\ Idle
  /\ arg \in [config : DetailConfigs, ctx : DetailContexts]
  /\ ret = NotApplied
  /\ website = NoSite

\* one call of _buildDetailConfig(config, ctx)
buildDetailConfig ==
  /\ ~ret.done
  /\ ret' = Returned(_buildDetailConfig(arg.config, arg.ctx))
  /\ UNCHANGED <<storeVars, decl, node, meta, answer, requests, arg, website>>

DetailSpec == DetailInit /\ [][buildDetailConfig]_vars

\* ------------------------------------------------------ reading the history
StoreKeys == {cacheKey(config) : config \in StoreConfigs}

\* the fetcher calls for key k that have not settled
Outstanding(k) == {t \in DOMAIN transports : Pending(t) /\ transports[t].key = k}

\* clear() never ran while a fetcher call for key k was outstanding
NeverCleared(k) == \A t \in DOMAIN transports : transports[t].key = k => ~transports[t].orphaned

\* this step is a DataStore.fetch call for key k; NewCaller is the promise it returns
FetchStep(k) == Len(callers') = Len(callers) + 1 /\ callers'[Len(callers')].key = k
NewCaller == callers'[Len(callers')]

\* this step settles the fetcher call t
SettleStep(t) == t \in DOMAIN transports /\ Pending(t) /\ transports'[t].state # "pending"

\* ------------------------------------------------------------------- claims

\* C1, part 1: a fetch of key k issued while an earlier fetcher call for k has
\* not settled (and no clear() came in between) does not ask the fetcher
\* again, and unless set() has cached k meanwhile it is handed that pending call.
C1_Once ==
  \A k \in StoreKeys :
    (FetchStep(k) /\ NeverCleared(k) /\ Outstanding(k) # {}) =>
      /\ transports' = transports
      /\ k \notin DOMAIN cache =>
           NewCaller.state = "waiting" /\ NewCaller.handle \in Outstanding(k)

\* C1, part 2: the callers that were handed the same fetcher call and have
\* been answered hold the same answer, the one the fetcher gave.
C1_Identical ==
  \A c \in DOMAIN callers :
    (callers[c].handle # 0 /\ callers[c].state # "waiting") =>
      /\ callers[c].state = transports[callers[c].handle].state
      /\ callers[c].value = transports[callers[c].handle].result

\* C1, part 3: a settlement with data caches the data under the key.
C1_Cached ==
  \A t \in 1..MaxCalls :
    (SettleStep(t) /\ transports'[t].state = "fulfilled"
       /\ HasData(transports'[t].result.data)) =>
      /\ transports[t].key \in DOMAIN cache'
      /\ cache'[transports[t].key] = transports'[t].result.data

C3_EmptyNotCached ==
  [][ /\ \A t \in 1..MaxCalls :
           (SettleStep(t) /\ transports'[t].state = "fulfilled"
              /\ ~HasData(transports'[t].result.data)) =>
             /\ cache' = cache
             /\ transports[t].key \notin DOMAIN inflight'
             /\ \A config \in StoreConfigs :
                  (cacheKey(config) = transports[t].key /\ ~has(config)) => ~has(config)'
      /\ \A k \in StoreKeys :
           (FetchStep(k) /\ fetcher = "fn" /\ k \notin DOMAIN cache
              /\ k \notin DOMAIN inflight) =>
             /\ Len(transports') = Len(transports) + 1
             /\ transports'[Len(transports')].key = k
             /\ transports'[Len(transports')].state = "pending"
    ]_vars

\* a fetch settled with null, nothing cached, and the next fetch of the
\* signature has asked the fetcher again
C3_Witness ==
  /\ Len(transports) = 2
  /\ transports[1].key = transports[2].key
  /\ transports[1].state = "fulfilled" /\ transports[1].result.data = JsNull
  /\ ~transports[1].orphaned
  /\ transports[2].state = "pending"
  /\ ~has(CfgArticles) /\ ~has(CfgTeams)

C5_SettledRemoved ==
  /\ \A k \in DOMAIN inflight : Pending(inflight[k])
  /\ \A c \in DOMAIN callers :
       callers[c].via \in {"miss", "join"} => callers[c].state # "rejected"

\* C6: with a fetcher registered, a fetch of a cached signature resolves at
\* once with {data: the cached value}, does not ask the fetcher and leaves
\* cache and in-flight table as they were.
C6_CacheHit ==
  [][ \A k \in StoreKeys :
        (FetchStep(k) /\ fetcher = "fn" /\ k \in DOMAIN cache) =>
          /\ NewCaller.state = "fulfilled"
          /\ NewCaller.value = [data |-> cache[k], error |-> Undefined]
          /\ UNCHANGED <<cache, inflight, transports>>
    ]_vars

\* a fetch answered from the cache while a fetcher call for the same
\* signature is still in flight
C6_Witness ==
  \E c \in DOMAIN callers :
    /\ callers[c].via = "hit"
    /\ callers[c].state = "fulfilled"
    /\ callers[c].key \in DOMAIN cache
    /\ callers[c].value.data = cache[callers[c].key]
    /\ callers[c].key \in DOMAIN inflight

\* C8: right after clear() cache and in-flight table are empty: has() is
\* false and get() is null for every signature.
C8_ClearEmpties ==
  last.op = "clear" =>
    /\ cache = EmptyMap
    /\ inflight = EmptyMap
    /\ \A config \in StoreConfigs : ~has(config) /\ get(config) = JsNull

\* clear() has just run on a store that held a cache entry and a pending call
C8_Witness ==
  /\ last.op = "clear"
  /\ last.full

\* the caller c holds a fetcher call that was outstanding when clear() ran
\* and that has settled since
C9_Stranded(c) ==
  /\ c \in DOMAIN callers
  /\ callers[c].handle # 0
  /\ transports[callers[c].handle].orphaned
  /\ ~Pending(callers[c].handle)

C9_Served(c) ==
  /\ c \in DOMAIN callers
  /\ callers[c].handle # 0
  /\ callers[c].state = transports[callers[c].handle].state
  /\ callers[c].value = transports[callers[c].handle].result

\* C9: a caller that was waiting on a pending fetch when clear() ran receives
\* the result of the fetcher once the fetcher settles.
C9_ClearKeepsWaiters == \A c \in 1..MaxCalls : C9_Stranded(c) ~> C9_Served(c)

\* a caller that waited through a clear() has been given the data
C9_Witness ==
  \E c \in DOMAIN callers :
    /\ C9_Stranded(c)
    /\ C9_Served(c)
    /\ callers[c].state = "fulfilled"
    /\ callers[c].value.data = JsArray(<<ItemA>>)

\* two declarations agree on address (path and url), schema and transform
Agree(a, b) ==
  \A f \in {"path", "url", "schema", "transform"} : GetField(a, f) = GetField(b, f)

\* C7: a declaration b finds the cache entry that set(decl) wrote, and the
\* pending operation that fetch(decl) registered, exactly when b agrees with
\* decl on path, url, schema and transform, however the fields of either are
\* ordered and whatever detail convention either carries.
C7_KeyEquality ==
  LET key == cacheKey(decl) IN
  \A b \in ConfigSpace :
    LET keyb == cacheKey(b)
        agree == Agree(decl, b)
    IN /\ keyb = key <=> agree
       /\ has(decl) => (has(b) <=> agree)
       /\ (has(decl) /\ agree) => get(b) = get(decl)
       /\ key \in DOMAIN inflight => (keyb \in DOMAIN inflight <=> agree)

\* an entry written under {schema, detail, path} is read back under
\* {path, schema}, and not under another path
C7_Witness ==
  /\ decl = << <<"schema", "articles">>, <<"detail", "rest">>, <<"path", "/data/a.json">> >>
  /\ has(decl)
  /\ has(<< <<"path", "/data/a.json">>, <<"schema", "articles">> >>)
  /\ get(<< <<"path", "/data/a.json">>, <<"schema", "articles">> >>) = JsArray(<<ItemB>>)
  /\ ~has(<< <<"path", "/data/b.json">>, <<"schema", "articles">> >>)

\* ---------------------------------------------------------------- resolve
\* no data requirement is declared: no meta, or an inheritData that is
\* neither true nor a non-empty list
NoRequirement(m) ==
  \/ ~m.present
  \/ m.inheritData.t \notin {"true", "array"}
  \/ m.inheritData.t = "array" /\ m.inheritData.list = << >>

\* the declarations discovered for the block being resolved
Discovered ==
  _findFetchConfigs(node, IF meta.inheritData.t = "array"
                          THEN meta.inheritData.list ELSE << >>)

NoneAnswer == answer = Answer("none", NullData)
PendingAnswer == answer = Answer("pending", NullData)

\* the detail config of a discovered declaration e is cached
DetailCached(e) ==
  LET ctx == dynamicContext(node)
      detailCfg == _buildDetailConfig(e.cfg, ctx)
  IN ctx.present /\ ~detailCfg.isNull /\ has(detailCfg.config)

\* the key a discovered declaration contributes to the bag, and its value
BagKey(e) == IF has(e.cfg) THEN e.schema ELSE SingularKey(e.schema)
BagValue(e) ==
  IF has(e.cfg) THEN get(e.cfg)
  ELSE get(_buildDetailConfig(e.cfg, dynamicContext(node)).config)
CachedBag ==
  [k \in {BagKey(Discovered[i]) : i \in 1..Len(Discovered)} |->
     LET i == CHOOSE j \in 1..Len(Discovered) :
                /\ BagKey(Discovered[j]) = k
                /\ \A l \in 1..Len(Discovered) :
                     BagKey(Discovered[l]) = k => l <= j
     IN BagValue(Discovered[i])]

\* C10 as stated: resolve answers 'none' with null data when no requirement is
\* declared or no declaration is discovered, 'pending' with null data when the
\* signature of some discovered declaration is not cached, and otherwise
\* 'ready' with a bag that maps each discovered schema name to the value
\* cached under its declaration's signature.
C10_SignatureCached ==
  last.op = "resolve" =>
    IF NoRequirement(meta) \/ Discovered = << >> THEN NoneAnswer
    ELSE IF \E i \in 1..Len(Discovered) : ~has(Discovered[i].cfg) THEN PendingAnswer
    ELSE /\ answer.status = "ready"
         /\ ~answer.data.isNull
         /\ \A i \in 1..Len(Discovered) :
              /\ Discovered[i].schema \in DOMAIN answer.data.bag
              /\ answer.data.bag[Discovered[i].schema] = get(Discovered[i].cfg)

\* C10: resolve answers 'none' with null data when no requirement is declared
\* or no declaration is discovered; 'pending' with null data when some
\* discovered declaration is cached neither under its own signature nor, on a
\* block with a dynamic context, under its synthesized detail signature; and
\* otherwise 'ready' with a bag that maps each discovered schema name to its
\* cached value (the singular key to the cached record for a declaration found
\* under its detail signature), completed by the singular item of the dynamic
\* context. Without a dynamic context the bag maps exactly the discovered
\* schema names to their cached values.
C10_Resolve ==
  last.op = "resolve" =>
    IF NoRequirement(meta) \/ Discovered = << >> THEN NoneAnswer
    ELSE IF \E i \in 1..Len(Discovered) :
              ~has(Discovered[i].cfg) /\ ~DetailCached(Discovered[i])
      THEN PendingAnswer
    ELSE /\ answer = Answer("ready",
                            Bag(_resolveSingularItem(CachedBag, dynamicContext(node))))
         /\ ~dynamicContext(node).present =>
              /\ DOMAIN answer.data.bag =
                   {Discovered[i].schema : i \in 1..Len(Discovered)}
              /\ \A i \in 1..Len(Discovered) :
                   answer.data.bag[Discovered[i].schema] = get(Discovered[i].cfg)

\* C10 witness: a block on a dynamic route was answered 'ready' from the
\* cached detail record while the collection's own signature is not cached
C10_Witness ==
  /\ last.op = "resolve"
  /\ answer.status = "ready"
  /\ Len(Discovered) = 1
  /\ ~has(Discovered[1].cfg)
  /\ DOMAIN answer.data.bag = {"article"}
  /\ answer.data.bag["article"] = JsObject(ItemA)

\* ------------------------------------------------------------ first match
\* every declaration written on the levels discovery consults, in the order
\* block, page, parent page, site
Levels(block) ==
  block.fetch.cfgs \o PageFetch(block, 1).cfgs \o PageFetch(block, 2).cfgs
    \o block.site.cfgs

\* the i-th declaration names a schema that no earlier declaration names
IsFirst(cfgs, i) ==
  /\ ~Falsy(GetField(cfgs[i], "schema"))
  /\ \A j \in 1..(i - 1) : GetField(cfgs[j], "schema") # GetField(cfgs[i], "schema")

RECURSIVE Firsts(_, _)
Firsts(cfgs, i) ==
  IF i > Len(cfgs) THEN << >>
  ELSE (IF IsFirst(cfgs, i) THEN <<cfgs[i]>> ELSE << >>) \o Firsts(cfgs, i + 1)

\* the block with every later declaration of a schema struck out: the first
\* declarations, all written on the block itself
FirstOnly(block) ==
  Block(List(Firsts(Levels(block), 1)), block.dynamicContext,
        [i \in 1..Len(block.pages) |-> Page(NoFetch, block.pages[i].dynamicContext)],
        NoFetch)

\* the requirement asks for the schema of cfg
Wanted(m, cfg) ==
  /\ ~NoRequirement(m)
  /\ m.inheritData.t = "true" \/ InList(m.inheritData.list, GetField(cfg, "schema"))

\* the signatures a fetch for cfg may ask the transport for: its own, or the
\* detail signature built from it
SignaturesOf(cfg, ctx) ==
  {cacheKey(cfg)} \cup
  (IF _buildDetailConfig(cfg, ctx).isNull THEN {}
   ELSE {cacheKey(_buildDetailConfig(cfg, ctx).config)})

\* C11: whatever fetches were made for the block, the fetcher was invoked
\* only for signatures of the first declaration of a wanted schema (in the
\* order block, page, parent page, site, and list order within a level), and
\* resolve answers exactly as it would if every later declaration of a schema
\* were struck out.
C11_FirstWins ==
  LET first == Firsts(Levels(node), 1)
      allowed == UNION {SignaturesOf(first[i], dynamicContext(node)) :
                          i \in {j \in 1..Len(first) : Wanted(meta, first[j])}}
  IN /\ \A t \in DOMAIN transports : transports[t].key \in allowed
     /\ resolve(node, meta) = resolve(FirstOnly(node), meta)

\* C11 witness: articles is declared twice on the block and again on the
\* page; a fetch was answered from the first declaration while the second
\* one's signature holds another value in the cache
C11_Witness ==
  /\ node = NodeLevels
  /\ Len(requests) >= 1
  /\ requests[1].state = "fulfilled"
  /\ ~requests[1].result.isNull
  /\ "articles" \in DOMAIN requests[1].result.bag
  /\ requests[1].result.bag["articles"] = JsArray(<<ItemB, ItemA>>)
  /\ \E t \in DOMAIN transports : transports[t].key = cacheKey(CfgArticles)
  /\ has(CfgArticlesApi)
  /\ get(CfgArticlesApi) = JsArray(<<ItemB>>)

\* --------------------------------------------------------- discovery depth
\* C12: the fetcher is invoked only for declarations written on the block,
\* its page, that page's parent or the site, and when none of these declares
\* a wanted schema (as when only the grandparent does) no fetcher call is
\* made and every fetch is answered { data: null }.
C12_ParentOnly ==
  LET levels == Levels(node)
      wanted == {i \in 1..Len(levels) :
                   ~Falsy(GetField(levels[i], "schema")) /\ Wanted(meta, levels[i])}
  IN /\ \A t \in DOMAIN transports :
          \E i \in wanted : transports[t].key \in SignaturesOf(levels[i], dynamicContext(node))
     /\ wanted = {} =>
          \A r \in DOMAIN requests :
            requests[r].state = "fulfilled" /\ requests[r].result.isNull

\* --------------------------------------------------------- detail synthesis
\* the template with every {paramName} replaced by the encoded value
RECURSIVE Filled(_, _, _)
Filled(parts, paramName, paramValue) ==
  IF parts = << >> THEN ""
  ELSE (IF ~Head(parts).ph THEN Head(parts).text
        ELSE IF Head(parts).text = paramName THEN encodeURIComponent(paramValue)
        ELSE "{" \o Head(parts).text \o "}")
         \o Filled(Tail(parts), paramName, paramValue)

Found == IF NoRequirement(meta) THEN << >> ELSE Discovered

\* a detail request can be built for the discovered declaration e
Detailed(e) == ~_buildDetailConfig(e.cfg, dynamicContext(node)).isNull
DetailKey(e) == cacheKey(_buildDetailConfig(e.cfg, dynamicContext(node)).config)

\* the step is a call of EntityStore.fetch
EntityFetchStep == Len(requests') = Len(requests) + 1

\* C14, the call: when EntityStore.fetch is called on a block with a dynamic
\* context, for every discovered declaration with a detail convention the
\* call asks the store for the detail signature, to be returned under the
\* singular key, when the collection is not cached, and is answered from the
\* cache under the schema name, without a fetcher call, when it is.
C14_Call ==
  EntityFetchStep =>
    LET parts == requests'[Len(requests')].parts IN
    /\ Len(parts) = Len(Found)
    /\ \A i \in 1..Len(Found) :
         LET e == Found[i]
             promise == callers'[parts[i].caller]
         IN (dynamicContext(node).present /\ Detailed(e)) =>
              IF has(e.cfg)
              THEN /\ parts[i].key = e.schema
                   /\ promise.key = cacheKey(e.cfg)
                   /\ fetcher = "fn" => promise.via = "hit"
                   /\ \A t \in (Len(transports) + 1)..Len(transports') :
                        transports'[t].key # cacheKey(e.cfg)
              ELSE /\ parts[i].key = SingularKey(e.schema)
                   /\ promise.key = DetailKey(e)

\* C14, the outcome: the fetcher is never invoked for the collection
\* signature of such a declaration, and a fetch that asked for the detail
\* signature returns the record the store answered under the singular key.
C14_Outcome ==
  \A i \in 1..Len(Found) :
    LET e == Found[i] IN
    (dynamicContext(node).present /\ Detailed(e)) =>
      /\ \A t \in DOMAIN transports : transports[t].key # cacheKey(e.cfg)
      /\ \A r \in DOMAIN requests :
           LET part == requests[r].parts[i]
               answered == callers[part.caller].value.data
           IN (requests[r].state = "fulfilled" /\ part.key = SingularKey(e.schema)
                 /\ HasData(answered)) =>
                /\ part.key \in DOMAIN requests[r].result.bag
                /\ requests[r].result.bag[part.key] = answered
                /\ e.schema \notin DOMAIN requests[r].result.bag

\* C14: on a block with a dynamic context, a discovered declaration with a
\* detail convention whose collection is not cached is fetched through the
\* synthesized detail signature only, never through the collection
\* signature, and the record comes back under the singular key; when the
\* collection is cached no fetcher call is made for it.
C14_DetailOnly == [][C14_Call]_vars /\ []C14_Outcome

\* C14 witness: on the page of /api/articles with slug a, the fetch asked the
\* fetcher for /api/articles/a only and returned the record as article
C14_Witness ==
  /\ node = NodeDetail(CfgRest, CtxA)
  /\ Len(transports) = 1
  /\ transports[1].key = cacheKey(<< <<"path", "/api/articles/a">>, <<"schema", "article">> >>)
  /\ Len(requests) >= 1
  /\ requests[1].state = "fulfilled"
  /\ ~requests[1].result.isNull
  /\ DOMAIN requests[1].result.bag = {"article"}
  /\ requests[1].result.bag["article"] = JsObject(ItemA)
\* ------------------------------------------------------ the singular item
\* items of a collection: two with one slug, one whose slug reads like an id
\* of another, one with no slug and no id
SingleA1 == [slug |-> Str("a"), id |-> Num("7")]
SingleA2 == [slug |-> Str("a"), id |-> Num("8")]
Single7 == [slug |-> Str("7"), id |-> Num("9")]
SingleBare == [title |-> Str("t")]
Collections ==
  { <<SingleA1, SingleA2>>, <<SingleA2, SingleA1>>,
    <<Single7, SingleBare, SingleA1>>, <<SingleBare>>, << >> }
SingularSchemas == {"articles", "series", "s"}
\* what the bag holds besides the collection
Extras ==
  { EmptyMap, "teams" :> JsArray(<<ItemB>>),
    ("teams" :> JsArray(<<ItemB>>)) @@ ("article" :> JsObject(ItemB)) }
SingularBags ==
  {EmptyMap} \cup
  { (schema :> payload) @@ extra :
      schema \in SingularSchemas,
      payload \in {JsArray(c) : c \in Collections} \cup {JsObject(SingleA1)},
      extra \in Extras }
SingularContexts ==
  {NoContext} \cup
  { Context(paramName, paramValue, schema) :
      paramName \in {"slug", "id", Undefined},
      paramValue \in {"a", "7", "zzz", Undefined},
      schema \in SingularSchemas \cup {Undefined} }

SingularInit ==
  /\ Idle
  /\ arg \in [data : SingularBags, ctx : SingularContexts]
  /\ ret = NotApplied
  /\ website = NoSite

resolveSingularItem ==
  /\ ~ret.done
  /\ ret' = Returned(_resolveSingularItem(arg.data, arg.ctx))
  /\ UNCHANGED <<storeVars, decl, node, meta, answer, requests, arg, website>>

SingularSpec == SingularInit /\ [][resolveSingularItem]_vars

\* ---------------------------------------------------------------- claim C15
\* the context names a schema, a parameter and a value
Complete(ctx) ==
  /\ ctx.present
  /\ ctx.schema # Undefined /\ ctx.paramName # Undefined
  /\ ctx.paramValue # Undefined
\* the places of the list whose item carries the parameter with that value
Matching(items, ctx) ==
  {i \in 1..Len(items) :
     /\ ctx.paramName \in DOMAIN items[i]
     /\ items[i][ctx.paramName].s = ctx.paramValue}
\* the bag holds a list under the schema of a complete context, an item of
\* it matches and the schema has a singular name
Derivable(bag, ctx) ==
  /\ Complete(ctx)
  /\ ctx.schema \in DOMAIN bag
  /\ bag[ctx.schema].t = "array"
  /\ Matching(bag[ctx.schema].items, ctx) # {}
  /\ singularize(ctx.schema) # ""

Stems ==
  { "articl", "categor", "box", "dish", "class", "watch", "buzz", "hero",
    "cours", "seri", "team", "peopl", "p", "s", "e", "" }
Endings == {"", "s", "es", "ies", "e", "y"}
Names ==
  {"people", "children", "men", "women", "series", Undefined, Null}
    \cup {stem \o ending : stem \in Stems, ending \in Endings}

NameInit == Idle /\ arg \in Names /\ ret = NotApplied /\ website = NoSite

\* both copies of the function applied to one name
singularizeName ==
  /\ ~ret.done
  /\ ret' = Returned([standalone |-> singularize(arg), website |-> _singularize(arg)])
  /\ UNCHANGED <<storeVars, decl, node, meta, answer, requests, arg, website>>

NameSpec == NameInit /\ [][singularizeName]_vars

\* ---------------------------------------------------------------- claim C16
IrregularPlurals ==
  { <<"people", "person">>, <<"children", "child">>, <<"men", "men">>,
    <<"women", "woman">>, <<"series", "series">> }
\* name without its last n characters
Without(name, n) == SubSeq(name, 1, Len(name) - n)
\* the singular of a name by the table, then by its ending
Singular(name) ==
  IF \E p \in IrregularPlurals : p[1] = name
    THEN (CHOOSE p \in IrregularPlurals : p[1] = name)[2]
  ELSE IF endsWith(name, "ies") THEN Without(name, 3) \o "y"
  ELSE IF \E h \in {"ses", "xes", "zes", "ches", "shes"} : endsWith(name, h)
    THEN Without(name, 2)
  ELSE IF endsWith(name, "s") THEN Without(name, 1)
  ELSE name
Examples ==
  { <<"articles", "article">>, <<"categories", "category">>,
    <<"boxes", "box">>, <<"people", "person">>, <<"series", "series">> }

startsWith(s, prefix) == Len(s) >= Len(prefix) /\ SubSeq(s, 1, Len(prefix)) = prefix
\* s.slice(n)
DropFirst(s, n) == IF Len(s) <= n THEN "" ELSE SubSeq(s, n + 1, Len(s))
\* the place of the first ch in s, 0 when there is none
IndexOf(s, ch) ==
  IF includes(s, ch) THEN CHOOSE i \in 1..Len(s) :
                            SubSeq(s, i, i) = ch /\ \A j \in 1..(i - 1) : SubSeq(s, j, j) # ch
  ELSE 0

\* the characters of the class [.*+?^${}()|[\]\\]
RegExpSpecial == ".*+?^${}()|[]\\"

\* pattern.replace(/[.*+?^${}()|[\]\\]/g, '\\$&')
RECURSIVE escapeSpecial(_)
escapeSpecial(s) ==
  IF s = "" THEN ""
  ELSE LET ch == SubSeq(s, 1, 1)
       IN (IF includes(RegExpSpecial, ch) THEN "\\" \o ch ELSE ch)
            \o escapeSpecial(DropFirst(s, 1))

CaptureGroup == "([^/]+)"

\* .replace(/:(\w+)/g, ...): the expression with a capture group for every
\* :name and the names in the order they were met
RECURSIVE replaceParams(_)
replaceParams(s) ==
  IF s = "" THEN [regexStr |-> "", paramNames |-> << >>]
  ELSE LET rest == DropFirst(s, 1)
           n == WordRun(rest)
       IN IF SubSeq(s, 1, 1) = ":" /\ n > 0
          THEN LET after == replaceParams(DropFirst(rest, n))
               IN [regexStr |-> CaptureGroup \o after.regexStr,
                   paramNames |-> <<SubSeq(rest, 1, n)>> \o after.paramNames]
          ELSE LET after == replaceParams(rest)
               IN [regexStr |-> SubSeq(s, 1, 1) \o after.regexStr,
                   paramNames |-> after.paramNames]

\* new RegExp(regexStr): the expression read as a list of atoms; an escaped
\* character stands for itself, a dot for any character, the group for a run.
\* The metacharacters other than the dot are never left unescaped by line 319.
RECURSIVE RegExp(_)
RegExp(s) ==
  IF s = "" THEN << >>
  ELSE IF startsWith(s, CaptureGroup)
    THEN <<[k |-> "group", ch |-> ""]>> \o RegExp(DropFirst(s, Len(CaptureGroup)))
  ELSE IF SubSeq(s, 1, 1) = "\\" /\ Len(s) >= 2
    THEN <<[k |-> "char", ch |-> SubSeq(s, 2, 2)]>> \o RegExp(DropFirst(s, 2))
  ELSE IF SubSeq(s, 1, 1) = "."
    THEN <<[k |-> "any", ch |-> ""]>> \o RegExp(DropFirst(s, 1))
  ELSE <<[k |-> "char", ch |-> SubSeq(s, 1, 1)]>> \o RegExp(DropFirst(s, 1))

\* the length of the run of characters other than / that s starts with
RECURSIVE SegmentRun(_)
SegmentRun(s) ==
  IF s = "" \/ SubSeq(s, 1, 1) = "/" THEN 0 ELSE 1 + SegmentRun(DropFirst(s, 1))

NoMatch == [matched |-> FALSE, groups |-> << >>]

\* path.match(/^...$/): the atoms against the whole of s, a group taking the
\* longest run that lets the rest match
RECURSIVE match(_, _)
match(atoms, s) ==
  IF atoms = << >> THEN [matched |-> s = "", groups |-> << >>]
  ELSE LET atom == Head(atoms)
       IN IF atom.k = "char"
            THEN IF s # "" /\ SubSeq(s, 1, 1) = atom.ch
                 THEN match(Tail(atoms), DropFirst(s, 1)) ELSE NoMatch
          ELSE IF atom.k = "any"
            THEN IF s # "" THEN match(Tail(atoms), DropFirst(s, 1)) ELSE NoMatch
          ELSE LET fits == {n \in 1..SegmentRun(s) :
                              match(Tail(atoms), DropFirst(s, n)).matched}
               IN IF fits = {} THEN NoMatch
                  ELSE LET n == CHOOSE m \in fits : \A o \in fits : o <= m
                           after == match(Tail(atoms), DropFirst(s, n))
                       IN [matched |-> TRUE,
                           groups |-> <<SubSeq(s, 1, n)>> \o after.groups]

\* ------------------------------------------------------- decodeURIComponent
HexDigits == "0123456789ABCDEF"
HexLower == "0123456789abcdef"
HexValue(ch) ==
  IF includes(HexDigits, ch) THEN IndexOf(HexDigits, ch) - 1
  ELSE IF includes(HexLower, ch) THEN IndexOf(HexLower, ch) - 1
  ELSE -1
\* s starts with a well-formed %XX
IsEscape(s) ==
  /\ Len(s) >= 3 /\ SubSeq(s, 1, 1) = "%"
  /\ HexValue(SubSeq(s, 2, 2)) >= 0 /\ HexValue(SubSeq(s, 3, 3)) >= 0
ByteOf(s) == 16 * HexValue(SubSeq(s, 2, 2)) + HexValue(SubSeq(s, 3, 3))
\* the characters of codes 32 to 126 in order (code 96 cannot be written in
\* a string here and is left as its escape)
AsciiTable ==
  " !\"#$%&'()*+,-./0123456789:;<=>?@ABCDEFGHIJKLMNOPQRSTUVWXYZ[\\]^_ abcdefghijklmnopqrstuvwxyz{|}~"
\* the bytes that follow a first byte of a UTF-8 sequence, -1 for a byte that
\* cannot come first
Continuations(byte) ==
  IF byte < 128 THEN 0
  ELSE IF byte >= 194 /\ byte <= 223 THEN 1
  ELSE IF byte >= 224 /\ byte <= 239 THEN 2
  ELSE IF byte >= 240 /\ byte <= 244 THEN 3
  ELSE -1
\* s starts with n escapes of continuation bytes
RECURSIVE ContinuesWith(_, _)
ContinuesWith(s, n) ==
  \/ n = 0
  \/ /\ IsEscape(s) /\ ByteOf(s) >= 128 /\ ByteOf(s) <= 191
     /\ ContinuesWith(DropFirst(s, 3), n - 1)

URIError == [threw |-> TRUE, value |-> ""]

\* decodeURIComponent(s): the decoded string, or URIError for a % that does
\* not begin a well-formed sequence.  A character outside codes 32 to 126 is
\* written as the escapes that stand for it.
RECURSIVE decodeURIComponent(_)
decodeURIComponent(s) ==
  IF s = "" THEN [threw |-> FALSE, value |-> ""]
  ELSE IF SubSeq(s, 1, 1) # "%"
    THEN LET after == decodeURIComponent(DropFirst(s, 1))
         IN IF after.threw THEN URIError
            ELSE [threw |-> FALSE, value |-> SubSeq(s, 1, 1) \o after.value]
  ELSE IF ~IsEscape(s) THEN URIError
  ELSE LET byte == ByteOf(s)
           n == Continuations(byte)
       IN IF n < 0 \/ ~ContinuesWith(DropFirst(s, 3), n) THEN URIError
          ELSE LET taken == 3 * (n + 1)
                   after == decodeURIComponent(DropFirst(s, taken))
                   char == IF byte >= 32 /\ byte <= 126 /\ byte # 96
                             THEN SubSeq(AsciiTable, byte - 31, byte - 31)
                             ELSE SubSeq(s, 1, taken)
               IN IF after.threw THEN URIError
                  ELSE [threw |-> FALSE, value |-> char \o after.value]

\* ---------------------------------------------------- Website route matching
\* what _matchDynamicRoute does: returns null, returns { params }, or throws
NullMatch == [kind |-> "null", params |-> EmptyMap]
Params(params) == [kind |-> "match", params |-> params]
Thrown == [kind |-> "throw", params |-> EmptyMap]

\* lines 331-334: params[name] = decodeURIComponent(match[i + 1]) for every
\* name in order; a later name of the same spelling overwrites
RECURSIVE buildParams(_, _, _)
buildParams(paramNames, groups, params) ==
  IF paramNames = << >> THEN Params(params)
  ELSE LET decoded == decodeURIComponent(Head(groups))
       IN IF decoded.threw THEN Thrown
          ELSE buildParams(Tail(paramNames), Tail(groups),
                           [x \in DOMAIN params \cup {Head(paramNames)} |->
                              IF x = Head(paramNames) THEN decoded.value
                              ELSE params[x]])

_matchDynamicRoute(pattern, path) ==
  LET replaced == replaceParams(escapeSpecial(pattern))
      regex == RegExp(replaced.regexStr)
      m == match(regex, path)
  IN IF ~m.matched THEN NullMatch
     ELSE buildParams(replaced.paramNames, m.groups, << >>)

\* templates and paths the matcher is applied to
RoutePatterns ==
  { "/blog/:slug", "/blog/:slug/edit", "/:lang/docs/:id", "/v1.0/:id",
    "/a+b/:x", "/:page" }
RoutePaths ==
  { "/blog/my-post", "/blog/my-post/extra", "/blog/my-post/edit", "/blog/",
    "/blog", "/blog//edit", "/Blog/my-post", "blog/my-post", "/blog/a.b",
    "/blog/a%20b", "/blog/a%2Fb", "/blog/caf%C3%A9", "/blog/100%",
    "/blog/%E9/edit", "/en/docs/7", "/en/docs/", "/v1.0/x", "/v1x0/x",
    "/a+b/c", "/aab/c", "/about", "/" }

RouteInit ==
  /\ Idle
  /\ arg \in [pattern : RoutePatterns, path : RoutePaths]
  /\ ret = NotApplied
  /\ website = NoSite

matchDynamicRoute ==
  /\ ~ret.done
  /\ ret' = Returned(_matchDynamicRoute(arg.pattern, arg.path))
  /\ UNCHANGED <<storeVars, decl, node, meta, answer, requests, arg, website>>

RouteSpec == RouteInit /\ [][matchDynamicRoute]_vars

\* ---------------------------------------------------------------- claim C17
\* the pieces of s between its slashes
RECURSIVE Segments(_)
Segments(s) ==
  IF ~includes(s, "/") THEN <<s>>
  ELSE LET i == IndexOf(s, "/")
       IN <<SubSeq(s, 1, i - 1)>> \o Segments(DropFirst(s, i))
\* a segment of a template that is a placeholder
IsPlaceholder(seg) ==
  /\ Len(seg) >= 2 /\ SubSeq(seg, 1, 1) = ":"
  /\ WordRun(DropFirst(seg, 1)) = Len(seg) - 1
\* same number of segments, literal segments equal, a segment that is not
\* empty at every placeholder
Fits(pattern, path) ==
  LET t == Segments(pattern)
      p == Segments(path)
  IN /\ Len(t) = Len(p)
     /\ \A i \in 1..Len(t) :
          IF IsPlaceholder(t[i]) THEN p[i] # "" ELSE p[i] = t[i]
\* the placeholder names of a template
PlaceholderNames(pattern) ==
  LET t == Segments(pattern)
  IN {DropFirst(t[i], 1) : i \in {j \in 1..Len(t) : IsPlaceholder(t[j])}}

\* C17: a template matches a path exactly when both have the same number of
\* segments, every literal segment of the template is the segment of the path
\* character for character and every placeholder meets one segment that is
\* not empty; the params then give every placeholder name the decoded segment
\* at its place.
C17_Match ==
  ret.done /\ arg \in [pattern : RoutePatterns, path : RoutePaths] =>
    LET t == Segments(arg.pattern)
        p == Segments(arg.path)
    IN /\ ret.value.kind = "match" <=> Fits(arg.pattern, arg.path)
       /\ ret.value.kind = "match" =>
            /\ DOMAIN ret.value.params = PlaceholderNames(arg.pattern)
            /\ \A i \in 1..Len(t) :
                 IsPlaceholder(t[i]) =>
                   ret.value.params[DropFirst(t[i], 1)] =
                     decodeURIComponent(p[i]).value
\* ------------------------------------------------------------------ Website
\* number of Page objects made for one concrete route in one behaviour
MaxMaterialized == 2

\* a Map as the list of its <<key, value>> entries in insertion order
Map_has(m, k) == \E i \in 1..Len(m) : m[i][1] = k
Map_get(m, k) ==
  IF Map_has(m, k) THEN m[CHOOSE i \in 1..Len(m) : m[i][1] = k][2] ELSE Undefined
Map_set(m, k, v) ==
  IF Map_has(m, k)
    THEN [i \in 1..Len(m) |-> IF m[i][1] = k THEN <<k, v>> ELSE m[i]]
    ELSE Append(m, <<k, v>>)

\* lines 142-148: the forward and the reverse Map of one locale, from the
\* entries of its routes object in the order they were written
RECURSIVE buildMaps(_, _)
buildMaps(routes, acc) ==
  IF routes = << >> THEN acc
  ELSE LET canonical == Head(routes)[1]
           translated == Head(routes)[2]
       IN buildMaps(Tail(routes),
                    [forward |-> Map_set(acc.forward, canonical, translated),
                     reverse |-> Map_set(acc.reverse, translated, canonical)])

\* translations: locale -> entries of config.i18n.routeTranslations[locale]
_buildRouteTranslations(translations) ==
  [locale \in DOMAIN translations |->
     buildMaps(translations[locale], [forward |-> << >>, reverse |-> << >>])]

\* the first entry of a Map whose key followed by a slash starts the route:
\* its place, 0 for none
PrefixEntry(m, route) ==
  LET found == {i \in 1..Len(m) : startsWith(route, m[i][1] \o "/")}
  IN IF found = {} THEN 0 ELSE CHOOSE i \in found : \A j \in found : i <= j

\* a translation that only looks for a translated prefix
translateRoute_PrefixOnly(w, canonicalRoute, locale) ==
  IF Falsy(locale) \/ locale = w.defaultLocale THEN canonicalRoute
  ELSE IF locale \notin DOMAIN w.routeTranslations THEN canonicalRoute
  ELSE LET forward == w.routeTranslations[locale].forward
           i == PrefixEntry(forward, canonicalRoute)
       IN IF i # 0
            THEN forward[i][2] \o DropFirst(canonicalRoute, Len(forward[i][1]))
          ELSE canonicalRoute

translateRoute(w, canonicalRoute, locale) ==
  IF Falsy(locale) \/ locale = w.defaultLocale THEN canonicalRoute
  ELSE IF locale \notin DOMAIN w.routeTranslations THEN canonicalRoute
  ELSE LET forward == w.routeTranslations[locale].forward
           translated == Map_get(forward, canonicalRoute)
           i == PrefixEntry(forward, canonicalRoute)
       IN IF ~Falsy(translated) THEN translated
          ELSE IF i # 0
            THEN forward[i][2] \o DropFirst(canonicalRoute, Len(forward[i][1]))
          ELSE canonicalRoute

reverseTranslateRoute(w, displayRoute, locale) ==
  IF Falsy(locale) \/ locale = w.defaultLocale THEN displayRoute
  ELSE IF locale \notin DOMAIN w.routeTranslations THEN displayRoute
  ELSE LET reverse == w.routeTranslations[locale].reverse
           canonical == Map_get(reverse, displayRoute)
           i == PrefixEntry(reverse, displayRoute)
       IN IF ~Falsy(canonical) THEN canonical
          ELSE IF i # 0
            THEN reverse[i][2] \o DropFirst(displayRoute, Len(reverse[i][1]))
          ELSE displayRoute

\* lines 255-270 of getPage: locale prefix, display route, trailing slash
normalizedRoute(w, route) ==
  LET prefix == "/" \o w.activeLocale
      stripped ==
        IF ~Falsy(w.activeLocale) /\ w.activeLocale # w.defaultLocale
          THEN IF route = prefix \/ route = prefix \o "/" THEN "/"
               ELSE IF startsWith(route, prefix \o "/")
                 THEN DropFirst(route, Len(prefix))
               ELSE route
          ELSE route
      canonical == reverseTranslateRoute(w, stripped, w.activeLocale)
  IN IF canonical = "/" THEN "/"
     ELSE IF endsWith(canonical, "/") THEN DropLast(canonical, 1)
     ELSE canonical

\* a Page object: one of this.pages (object = its place in the list) or one
\* made by _createDynamicPage (object = which Page made for that route it is)
StaticPage(w, i) ==
  [kind |-> "static", object |-> i, route |-> w.pages[i].route,
   isIndex |-> w.pages[i].isIndex, templateRoute |-> Undefined,
   params |-> EmptyMap]
DynamicPage(object, templatePage, concreteRoute, params) ==
  [kind |-> "dynamic", object |-> object, route |-> concreteRoute,
   isIndex |-> FALSE, templateRoute |-> templatePage.route, params |-> params]
NoPage ==
  [kind |-> "none", object |-> 0, route |-> Undefined, isIndex |-> FALSE,
   templateRoute |-> Undefined, params |-> EmptyMap]

getNavRoute(page) == page.route

\* how often a Page has been made for a concrete route
Materialized(w, route) ==
  IF route \in DOMAIN w.materialized THEN w.materialized[route] ELSE 0

\* the first of this.pages that passes a test: its place, 0 for none
FirstPage(w, Test(_)) ==
  LET found == {i \in 1..Len(w.pages) : Test(w.pages[i])}
  IN IF found = {} THEN 0 ELSE CHOOSE i \in found : \A j \in found : i <= j

\* what a call of getPage does: the website after it and what came back
PageFound(w, page) == [website |-> w, kind |-> "page", page |-> page]
NothingFound(w) == [website |-> w, kind |-> "undefined", page |-> NoPage]
Threw(w) == [website |-> w, kind |-> "throw", page |-> NoPage]

\* lines 287-301: the first template whose pattern matches (or whose match
\* throws) decides
MatchTemplates(w, route) ==
  LET Decides(page) ==
        /\ includes(page.route, ":")
        /\ _matchDynamicRoute(page.route, route).kind # "null"
      i == FirstPage(w, Decides)
  IN IF i = 0 THEN NothingFound(w)
     ELSE LET m == _matchDynamicRoute(w.pages[i].route, route)
          IN IF m.kind = "throw" THEN Threw(w)
             ELSE LET dynamicPage ==
                        DynamicPage(Materialized(w, route) + 1, w.pages[i],
                                    route, m.params)
                  IN PageFound(
                       [w EXCEPT
                          !.dynamicPageCache =
                             MapSet(w.dynamicPageCache, route, dynamicPage),
                          !.materialized =
                             MapSet(w.materialized, route,
                                    Materialized(w, route) + 1)],
                       dynamicPage)

\* a lookup that tries the templates before the pages
getPage_TemplatesFirst(w, route) ==
  LET n == normalizedRoute(w, route)
      Exact(page) == page.route = n
      exactMatch == FirstPage(w, Exact)
      tried == MatchTemplates(w, n)
  IN IF n \in DOMAIN w.dynamicPageCache
       THEN PageFound(w, w.dynamicPageCache[n])
     ELSE IF tried.kind # "undefined" THEN tried
     ELSE IF exactMatch # 0 THEN PageFound(w, StaticPage(w, exactMatch))
     ELSE NothingFound(w)

\* a lookup that does not look into the cache
getPage_NoCache(w, route) ==
  LET n == normalizedRoute(w, route)
      Exact(page) == page.route = n
      exactMatch == FirstPage(w, Exact)
  IN IF exactMatch # 0 THEN PageFound(w, StaticPage(w, exactMatch))
     ELSE MatchTemplates(w, n)

getPage(w, route) ==
  LET n == normalizedRoute(w, route)
      Exact(page) == page.route = n
      Index(page) == page.isIndex /\ getNavRoute(page) = n
      exactMatch == FirstPage(w, Exact)
      indexMatch == FirstPage(w, Index)
  IN IF exactMatch # 0 THEN PageFound(w, StaticPage(w, exactMatch))
     ELSE IF indexMatch # 0 THEN PageFound(w, StaticPage(w, indexMatch))
     ELSE IF n \in DOMAIN w.dynamicPageCache
       THEN PageFound(w, w.dynamicPageCache[n])
     ELSE MatchTemplates(w, n)

\* lines 651-657
setActiveLocale(w, localeCode) ==
  IF \E i \in 1..Len(w.locales) : w.locales[i] = localeCode
    THEN [w EXCEPT !.activeLocale = localeCode]
    ELSE w

\* lines 98-132: the default locale, then the locales of config.i18n that
\* are not yet in the list
RECURSIVE buildLocalesList(_, _)
buildLocalesList(acc, i18nLocales) ==
  IF i18nLocales = << >> THEN acc
  ELSE buildLocalesList(
         IF \E i \in 1..Len(acc) : acc[i] = Head(i18nLocales)
           THEN acc ELSE Append(acc, Head(i18nLocales)),
         Tail(i18nLocales))

\* the constructor, lines 11-89: what the lookups read
Website(pages, defaultLanguage, activeLocale, i18nLocales, translations) ==
  LET defaultLocale == IF Falsy(defaultLanguage) THEN "en" ELSE defaultLanguage
  IN [pages |-> pages,
      defaultLocale |-> defaultLocale,
      activeLocale |-> IF Falsy(activeLocale) THEN defaultLocale ELSE activeLocale,
      locales |-> buildLocalesList(<<defaultLocale>>, i18nLocales),
      routeTranslations |-> _buildRouteTranslations(translations),
      dynamicPageCache |-> EmptyMap,
      materialized |-> EmptyMap]

\* ------------------------------------------------------- websites looked up
PageData(route, isIndex) == [route |-> route, isIndex |-> isIndex]
\* a site whose pages come before its templates, and one the other way round
SitePages ==
  << PageData("/", TRUE), PageData("/about", FALSE), PageData("/blog", TRUE),
     PageData("/blog/featured", FALSE), PageData("/blog/:slug", FALSE),
     PageData("/:section/:topic", FALSE) >>
SitePagesTemplatesFirst ==
  << PageData("/:section/:topic", FALSE), PageData("/blog/:slug", FALSE),
     PageData("/", TRUE), PageData("/blog/featured", FALSE),
     PageData("/about", FALSE) >>
SiteTranslations ==
  "fr" :> << <<"/about", "/a-propos">>, <<"/blog", "/actualites">> >>
Websites ==
  { Website(pages, Undefined, Undefined, <<"fr", "es">>, SiteTranslations) :
      pages \in {SitePages, SitePagesTemplatesFirst} }
LocaleCodes == {"en", "fr", "es", "de"}
RawPaths ==
  { "/", "/about", "/about/", "/a-propos", "/fr/a-propos", "/fr/",
    "/blog/featured", "/blog/my-post", "/blog/my-post/",
    "/fr/actualites/my-post", "/fr/blog/my-post", "/es/blog/my-post",
    "/actualites/my-post", "/blog/100%", "/docs/intro", "/blog/:slug" }

WebsiteInit ==
  /\ Idle
  /\ arg = << >>
  /\ ret = NotApplied
  /\ website \in Websites

\* one call of getPage; made tells whether _createDynamicPage ran in it
GetPage ==
  \E route \in RawPaths :
    LET done == getPage(website, route)
    IN /\ Materialized(website, normalizedRoute(website, route)) < MaxMaterialized
       /\ website' = done.website
       /\ arg' = [op |-> "getPage", route |-> route]
       /\ ret' = Returned([kind |-> done.kind, page |-> done.page,
                            made |-> done.website.materialized # website.materialized])
       /\ UNCHANGED <<storeVars, decl, node, meta, answer, requests>>

SetActiveLocale ==
  \E localeCode \in LocaleCodes :
    /\ website' = setActiveLocale(website, localeCode)
    /\ arg' = [op |-> "setActiveLocale", route |-> localeCode]
    /\ ret' = Returned([kind |-> "undefined", page |-> NoPage, made |-> FALSE])
    /\ UNCHANGED <<storeVars, decl, node, meta, answer, requests>>

WebsiteNext == GetPage \/ SetActiveLocale
WebsiteSpec == WebsiteInit /\ [][WebsiteNext]_vars
\* ---------------------------------------------------------------- claim C18
\* the last call was getPage
Looked == ret.done /\ arg # << >> /\ arg.op = "getPage"
\* the path of the last lookup as the pages are compared with it
Canonical == normalizedRoute(website, arg.route)
\* the pages whose route is the path, the index pages whose navigation route
\* is the path, the templates the path fits
StaticAt(n) == {i \in 1..Len(website.pages) : website.pages[i].route = n}
IndexAt(n) ==
  {i \in 1..Len(website.pages) :
     website.pages[i].isIndex /\ website.pages[i].route = n}
TemplatesFor(n) ==
  {i \in 1..Len(website.pages) :
     includes(website.pages[i].route, ":") /\ Fits(website.pages[i].route, n)}

\* C18: with the path taken after locale prefix, display route and trailing
\* slash are dealt with: when a page has that route, a page of that route
\* comes back, whatever index pages and templates there are; when none has
\* but an index page's navigation route is the path, that index page comes
\* back, whatever templates there are; a page made from a template comes back
\* only when no page and no index page matches, and it is made from a
\* template the path fits; undefined comes back only when no page, no index
\* page and no template matches.
C18_Priority ==
  Looked =>
    LET n == Canonical
        r == ret.value
    IN /\ StaticAt(n) # {} =>
            /\ r.kind = "page" /\ r.page.kind = "static"
            /\ r.page.object \in StaticAt(n)
       /\ StaticAt(n) = {} /\ IndexAt(n) # {} =>
            /\ r.kind = "page" /\ r.page.kind = "static"
            /\ r.page.object \in IndexAt(n)
       /\ r.kind = "page" /\ r.page.kind = "dynamic" =>
            /\ StaticAt(n) = {} /\ IndexAt(n) = {}
            /\ r.page.route = n
            /\ \E i \in TemplatesFor(n) :
                 website.pages[i].route = r.page.templateRoute
       /\ r.kind = "undefined" =>
            StaticAt(n) = {} /\ IndexAt(n) = {} /\ TemplatesFor(n) = {}

\* C18: on the site whose templates come first in the list, /blog/featured
\* fits the template /blog/:slug and the page of that route came back
C18_Witness ==
  /\ Looked
  /\ website.pages = SitePagesTemplatesFirst
  /\ arg.route = "/blog/featured"
  /\ TemplatesFor(Canonical) # {}
  /\ ret.value.kind = "page"
  /\ ret.value.page.kind = "static"
  /\ ret.value.page.route = "/blog/featured"
\* ---------------------------------------------------------------- claim C19
\* a call of getPage for a path whose canonical route has a dynamic page made
\* already: that very page comes back and no page is made
C19_Again ==
  LET n == normalizedRoute(website, arg'.route)
  IN arg' # << >> /\ arg'.op = "getPage" /\ ret'.done
       /\ Materialized(website, n) > 0 =>
         /\ n \in DOMAIN website.dynamicPageCache
         /\ ret'.value.kind = "page"
         /\ ret'.value.page = website.dynamicPageCache[n]
         /\ website'.materialized = website.materialized
         /\ website'.dynamicPageCache = website.dynamicPageCache
\* no concrete route has had more than one page made for it
C19_AtMostOnce ==
  \A route \in DOMAIN website.materialized : website.materialized[route] <= 1

\* C19: over any sequence of lookups a dynamic page is made at most once for
\* a concrete canonical route: every later lookup whose path comes to the same
\* route, whatever its trailing slash, locale prefix or translated segment,
\* gets the page that was cached and makes none.
C19_MaterializedOnce == [][C19_Again]_vars /\ []C19_AtMostOnce

\* C19: with fr active, the translated path with its locale prefix got the
\* page cached for /blog/my-post and no page was made in that call
C19_Witness ==
  /\ Looked
  /\ website.activeLocale = "fr"
  /\ arg.route = "/fr/actualites/my-post"
  /\ ~ret.value.made
  /\ "/blog/my-post" \in DOMAIN website.dynamicPageCache
  /\ ret.value.kind = "page"
  /\ ret.value.page = website.dynamicPageCache["/blog/my-post"]
  /\ ret.value.page.kind = "dynamic"
  /\ website.materialized["/blog/my-post"] = 1
\* ------------------------------------------------------- translated routes
\* number of routes a locale translates
MaxRoutes == 2
CanonicalRoutes == {"/about", "/blog", "/blog/news"}
DisplayRoutes ==
  {"/a-propos", "/actualites", "/actualites/nouvelles", "/blog", "/about"}
\* the routes objects of a locale: up to MaxRoutes entries, each canonical
\* route written once
RECURSIVE RouteTables(_)
RouteTables(n) ==
  IF n = 0 THEN {<< >>}
  ELSE LET shorter == RouteTables(n - 1)
       IN shorter \cup
          { Append(t, <<c, d>>) :
              t \in {u \in shorter : Len(u) = n - 1},
              c \in CanonicalRoutes, d \in DisplayRoutes }
DeclaredOnce(t) == \A i, j \in 1..Len(t) : t[i][1] = t[j][1] => i = j
TranslatedSites ==
  { Website(<< >>, Undefined, Undefined, <<"fr", "es">>, "fr" :> t) :
      t \in {u \in RouteTables(MaxRoutes) : DeclaredOnce(u)} }
\* the routes and locales a round trip is made with
TripRoutes == DisplayRoutes \cup {"/actualites/my-post", "/contact"}
TripLocales == {"fr", "es", "en"}

TranslateInit ==
  /\ Idle
  /\ arg \in [d : TripRoutes, L : TripLocales]
  /\ ret = NotApplied
  /\ website \in TranslatedSites

\* translateRoute(reverseTranslateRoute(d, L), L)
roundTrip ==
  /\ ~ret.done
  /\ LET canonical == reverseTranslateRoute(website, arg.d, arg.L)
     IN ret' = Returned([canonical |-> canonical,
                         display |-> translateRoute(website, canonical, arg.L)])
  /\ UNCHANGED <<storeVars, decl, node, meta, answer, requests, arg, website>>

TranslateSpec == TranslateInit /\ [][roundTrip]_vars

\* ---------------------------------------------------------------- claim C20
\* d is the translation some canonical route is given in locale L
Declared(d, L) ==
  /\ L \in DOMAIN website.routeTranslations
  /\ \E i \in 1..Len(website.routeTranslations[L].forward) :
       website.routeTranslations[L].forward[i][2] = d

\* C20: for a locale other than the default and a display route that is the
\* declared translation of some route in it, translating the canonical route
\* that the display route is translated back to gives the display route.
C20_RoundTrip ==
  ret.done /\ arg \in [d : TripRoutes, L : TripLocales]
    /\ arg.L # website.defaultLocale /\ Declared(arg.d, arg.L) =>
      ret.value.display = arg.d

\* C20: /blog is the French name of /about while /blog itself is named
\* /about; /blog went back to /about and forth to /blog
C20_Witness ==
  /\ ret.done
  /\ arg = [d |-> "/blog", L |-> "fr"]
  /\ Declared("/blog", "fr")
  /\ website.routeTranslations["fr"].forward =
       << <<"/about", "/blog">>, <<"/blog", "/about">> >>
  /\ ret.value = [canonical |-> "/about", display |-> "/blog"]
\* --------------------------------------------- translating a route both ways
TranslatedRoutes ==
  { "/about", "/blog", "/blog/x", "/blog/news", "/blog/news/x", "/actualites",
    "/actualites/x", "/actualites/nouvelles/x", "/a-propos", "/contact" }

BothWaysInit ==
  /\ Idle
  /\ arg \in [route : TranslatedRoutes, L : TripLocales]
  /\ ret = NotApplied
  /\ website \in TranslatedSites

\* translateRoute(route, L) and reverseTranslateRoute(route, L)
translateBothWays ==
  /\ ~ret.done
  /\ ret' = Returned([translated |-> translateRoute(website, arg.route, arg.L),
                      reversed |-> reverseTranslateRoute(website, arg.route, arg.L)])
  /\ UNCHANGED <<storeVars, decl, node, meta, answer, requests, arg, website>>

BothWaysSpec == BothWaysInit /\ [][translateBothWays]_vars

\* ---------------------------------------------------------------- claim C21
\* what a table of <<from, to>> entries makes of a route: the entry of the
\* route itself, else the longest from that, followed by a slash, starts the
\* route, rewritten; else the route
ByLongestPrefix(table, route) ==
  LET exact == {i \in 1..Len(table) : table[i][1] = route}
      prefixes == {i \in 1..Len(table) : startsWith(route, table[i][1] \o "/")}
  IN IF exact # {} THEN table[CHOOSE i \in exact : TRUE][2]
     ELSE IF prefixes # {}
       THEN LET i == CHOOSE j \in prefixes :
                       \A k \in prefixes : Len(table[k][1]) <= Len(table[j][1])
            IN table[i][2] \o SubSeq(route, Len(table[i][1]) + 1, Len(route))
     ELSE route

\* C21: both translations give the declared translation of a route that is
\* declared; otherwise they rewrite the longest declared prefix that, followed
\* by a slash, starts the route, and keep the rest, whatever the order of the
\* declarations; with no match, or for the default locale, the route comes
\* back as it is.
C21_LongestPrefix ==
  ret.done /\ arg \in [route : TranslatedRoutes, L : TripLocales] =>
    IF arg.L = website.defaultLocale \/ arg.L \notin DOMAIN website.routeTranslations
      THEN ret.value.translated = arg.route /\ ret.value.reversed = arg.route
      ELSE /\ ret.value.translated =
                ByLongestPrefix(website.routeTranslations[arg.L].forward, arg.route)
           /\ ret.value.reversed =
                ByLongestPrefix(website.routeTranslations[arg.L].reverse, arg.route)
\* ----------------------------------------------------------- versioned scopes
\* this.versionedScopes: the list of <<scope, meta>> in the order of its keys;
\* meta is { versions, latestId }, a version { id, latest }
Version(id, latest) == [id |-> id, latest |-> latest]
VersionMeta(versions, latestId) == [versions |-> versions, latestId |-> latestId]

Scopes_has(scopes, scope) == \E i \in 1..Len(scopes) : scopes[i][1] = scope
Scopes_get(scopes, scope) ==
  scopes[CHOOSE i \in 1..Len(scopes) : scopes[i][1] = scope][2]

\* lines 1087-1109: the first scope of the list the route falls in, or null
getVersionScope(scopes, route) ==
  LET normalized == IF Falsy(route) THEN "" ELSE route
      Holds(scope) ==
        \/ normalized = scope
        \/ IF scope = "/" THEN startsWith(normalized, "/") \/ normalized = ""
           ELSE startsWith(normalized, scope \o "/")
      found == {i \in 1..Len(scopes) : Holds(scopes[i][1])}
  IN IF found = {} THEN Null
     ELSE scopes[CHOOSE i \in found : \A j \in found : i <= j][1]

\* lines 1228-1231
getLatestVersion(scopes, scope) ==
  IF Scopes_has(scopes, scope) /\ ~Falsy(Scopes_get(scopes, scope).latestId)
    THEN Scopes_get(scopes, scope).latestId ELSE Null

\* lines 1199-1207: afterScope without the segment of the first version of
\* the list that starts it
pathWithinVersion(versions, afterScope) ==
  LET Starts(version) ==
        \/ startsWith(afterScope, "/" \o version.id \o "/")
        \/ afterScope = "/" \o version.id
      found == {i \in 1..Len(versions) : Starts(versions[i])}
  IN IF found = {} THEN afterScope
     ELSE LET i == CHOOSE j \in found : \A k \in found : j <= k
          IN DropFirst(afterScope, Len(versions[i].id) + 1)

\* lines 1209-1219
targetUrl(scope, targetVersion, latest, path) ==
  IF latest THEN (IF scope = "/" THEN path ELSE scope \o path)
  ELSE IF scope = "/" THEN "/" \o targetVersion \o path
  ELSE scope \o "/" \o targetVersion \o path

\* a switch that gives the latest version its segment like any other
getVersionUrl_LatestPrefixed(scopes, targetVersion, currentRoute) ==
  LET scope == getVersionScope(scopes, currentRoute)
  IN IF scope = Null THEN Null
     ELSE LET versionMeta == Scopes_get(scopes, scope)
              found == {i \in 1..Len(versionMeta.versions) :
                          versionMeta.versions[i].id = targetVersion}
              afterScope == IF scope = "/" THEN currentRoute
                            ELSE DropFirst(currentRoute, Len(scope))
          IN IF found = {} THEN Null
             ELSE targetUrl(scope, targetVersion, FALSE,
                            pathWithinVersion(versionMeta.versions, afterScope))

\* a switch that leaves the version segment of the route where it is
getVersionUrl_NoStrip(scopes, targetVersion, currentRoute) ==
  LET scope == getVersionScope(scopes, currentRoute)
  IN IF scope = Null THEN Null
     ELSE LET versionMeta == Scopes_get(scopes, scope)
              found == {i \in 1..Len(versionMeta.versions) :
                          versionMeta.versions[i].id = targetVersion}
              afterScope == IF scope = "/" THEN currentRoute
                            ELSE DropFirst(currentRoute, Len(scope))
          IN IF found = {} THEN Null
             ELSE LET i == CHOOSE j \in found : \A k \in found : j <= k
                  IN targetUrl(scope, targetVersion, versionMeta.versions[i].latest,
                               afterScope)

\* lines 1181-1220; the route is a string
getVersionUrl(scopes, targetVersion, currentRoute) ==
  LET scope == getVersionScope(scopes, currentRoute)
  IN IF scope = Null THEN Null
     ELSE LET versionMeta == Scopes_get(scopes, scope)
              found == {i \in 1..Len(versionMeta.versions) :
                          versionMeta.versions[i].id = targetVersion}
              afterScope == IF scope = "/" THEN currentRoute
                            ELSE DropFirst(currentRoute, Len(scope))
          IN IF found = {} THEN Null
             ELSE LET i == CHOOSE j \in found : \A k \in found : j <= k
                  IN targetUrl(scope, targetVersion, versionMeta.versions[i].latest,
                               pathWithinVersion(versionMeta.versions, afterScope))

\* sites with one scope, with two scopes side by side, and versioned at the
\* root; the version flagged latest is the one latestId names
DocsVersions == <<Version("v2", TRUE), Version("v1", FALSE), Version("v10", FALSE)>>
ApiVersions == <<Version("v1", FALSE), Version("v3", TRUE)>>
ScopeLists ==
  { << <<"/docs", VersionMeta(DocsVersions, "v2")>> >>,
    << <<"/docs", VersionMeta(DocsVersions, "v2")>>,
       <<"/api", VersionMeta(ApiVersions, "v3")>> >>,
    << <<"/", VersionMeta(ApiVersions, "v3")>> >>,
    << >> }
VersionIds == {"v1", "v2", "v3", "v10", "v9"}
VersionRoutes ==
  { "/docs", "/docs/intro", "/docs/v1", "/docs/v1/intro", "/docs/v10/intro",
    "/docs/v2/intro", "/docs/a/b", "/docsx/intro", "/api/ref", "/api/v1/ref",
    "/about", "/", "/v1", "/v1/x", "/x", "" }

VersionInit ==
  /\ Idle
  /\ arg \in [scopes : ScopeLists, A : VersionIds, B : VersionIds,
              route : VersionRoutes]
  /\ ret = NotApplied
  /\ website = NoSite

\* getVersionUrl(B, route), and getVersionUrl(A, ...) of what it gave when it
\* gave a route
switchVersion ==
  /\ ~ret.done
  /\ LET there == getVersionUrl(arg.scopes, arg.B, arg.route)
     IN ret' = Returned([there |-> there,
                         back |-> IF there = Null THEN Null
                                  ELSE getVersionUrl(arg.scopes, arg.A, there)])
  /\ UNCHANGED <<storeVars, decl, node, meta, answer, requests, arg, website>>

VersionSpec == VersionInit /\ [][switchVersion]_vars

\* --------------------------------------------------------- claims C22, C23
VersionArgs ==
  [scopes : ScopeLists, A : VersionIds, B : VersionIds, route : VersionRoutes]
\* the routes a scope holds
InScope(route, scope) ==
  \/ route = scope
  \/ scope = "/" /\ (route = "" \/ startsWith(route, "/"))
  \/ scope # "/" /\ startsWith(route, scope \o "/")
\* the scopes of the list that hold the route
ScopesOf(scopes, route) ==
  {i \in 1..Len(scopes) : InScope(route, scopes[i][1])}
IdsOf(m) == {m.versions[i].id : i \in 1..Len(m.versions)}
\* what a route has after its scope
Within(route, scope) ==
  IF scope = "/" THEN route ELSE SubSeq(route, Len(scope) + 1, Len(route))
\* the version segment that starts a path within a scope, "" for none
Segment(path, ids) ==
  LET s == Segments(path)
  IN IF Len(s) >= 2 /\ s[1] = "" /\ s[2] \in ids THEN s[2] ELSE ""
\* the path without the version segment that starts it
Unversioned(path, ids) ==
  IF Segment(path, ids) = "" THEN path
  ELSE SubSeq(path, Len(Segment(path, ids)) + 2, Len(path))
\* the scope as the start of a route
Root(scope) == IF scope = "/" THEN "" ELSE scope

InForm(route, scope, m, A) ==
  LET path == Within(route, scope)
  IN /\ Segment(path, IdsOf(m)) = (IF A = m.latestId THEN "" ELSE A)
     /\ Segment(Unversioned(path, IdsOf(m)), IdsOf(m)) = ""

RECURSIVE StripLeading(_)
StripLeading(s) == IF startsWith(s, "/") THEN StripLeading(DropFirst(s, 1)) ELSE s
RECURSIVE StripTrailing(_)
StripTrailing(s) == IF endsWith(s, "/") THEN StripTrailing(DropLast(s, 1)) ELSE s

\* lines 988-1004
normalizeRoute(w, route) ==
  LET bare == StripTrailing(StripLeading(IF Falsy(route) THEN "" ELSE route))
      prefix == w.activeLocale
      unprefixed ==
        IF ~Falsy(w.activeLocale) /\ w.activeLocale # w.defaultLocale
          THEN IF bare = prefix THEN ""
               ELSE IF startsWith(bare, prefix \o "/")
                 THEN DropFirst(bare, Len(prefix) + 1)
               ELSE bare
          ELSE bare
      reversed == reverseTranslateRoute(w, "/" \o unprefixed, w.activeLocale)
  IN IF startsWith(reversed, "/") THEN DropFirst(reversed, 1) ELSE reversed

\* the website while its constructor runs buildPageHierarchy (line 52): the
\* locales are assigned only at lines 64-78, activeLocale is still undefined
UnderConstruction ==
  [NoSite EXCEPT !.defaultLocale = Undefined, !.activeLocale = Undefined]

\* lines 227-238: the Map from page ids to pages (places in the list); an
\* explicit id is always set, a route id only when the Map has none
RECURSIVE buildPageIdMap(_, _, _)
buildPageIdMap(pages, i, pageIdMap) ==
  IF i > Len(pages) THEN pageIdMap
  ELSE LET page == pages[i]
           withStable == IF ~Falsy(page.stableId)
                           THEN MapSet(pageIdMap, page.stableId, i)
                           ELSE pageIdMap
           routeId == normalizeRoute(UnderConstruction, page.route)
       IN buildPageIdMap(pages, i + 1,
            IF ~Falsy(routeId) /\ routeId \notin DOMAIN withStable
              THEN MapSet(withStable, routeId, i) ELSE withStable)

\* String.prototype.split('#'): the pieces of s between its # signs
RECURSIVE split(_)
split(s) ==
  IF ~includes(s, "#") THEN <<s>>
  ELSE <<SubSeq(s, 1, IndexOf(s, "#") - 1)>> \o split(DropFirst(s, IndexOf(s, "#")))

Value(v) == [kind |-> "value", value |-> v]
ReferenceError == [kind |-> "throw", value |-> "ReferenceError"]

\* lines 563-592; processDeclared tells whether the environment declares the
\* global process that line 577 reads
makeHref(pages, href, processDeclared) ==
  IF Falsy(href) \/ ~startsWith(href, "page:") THEN Value(href)
  ELSE LET withoutPrefix == DropFirst(href, 5)
           parts == split(withoutPrefix)
           pageId == parts[1]
           sectionId == IF Len(parts) >= 2 THEN parts[2] ELSE Undefined
           pageIdMap == buildPageIdMap(pages, 1, EmptyMap)
       IN IF pageId \notin DOMAIN pageIdMap
            THEN IF processDeclared THEN Value(href) ELSE ReferenceError
          ELSE LET page == pages[pageIdMap[pageId]]
               IN Value(IF ~Falsy(sectionId)
                          THEN page.route \o "#section-" \o sectionId
                          ELSE page.route)

\* pages with and without an explicit id; one's explicit id is the route id
\* of another
PageWithId(route, stableId) == [route |-> route, stableId |-> stableId]
HrefPages ==
  { PageWithId("/about", Undefined), PageWithId("/company", "about"),
    PageWithId("/docs/api", "api-ref"), PageWithId("/", Undefined) }
RECURSIVE Orders(_)
Orders(S) ==
  IF S = {} THEN {<< >>}
  ELSE UNION {{<<x>> \o o : o \in Orders(S \ {x})} : x \in S}
Hrefs ==
  { "page:about", "page:about#install", "page:api-ref", "page:docs/api",
    "page:docs/api#usage", "page:company", "page:missing", "page:missing#top",
    "page:", "/about", "https://example.org/page:about", "#top", "",
    Undefined }

HrefInit ==
  /\ Idle
  /\ arg \in [pages : Orders(HrefPages), href : Hrefs, processDeclared : BOOLEAN]
  /\ ret = NotApplied
  /\ website = NoSite

resolveHref ==
  /\ ~ret.done
  /\ ret' = Returned(makeHref(arg.pages, arg.href, arg.processDeclared))
  /\ UNCHANGED <<storeVars, decl, node, meta, answer, requests, arg, website>>

HrefSpec == HrefInit /\ [][resolveHref]_vars

\* ---------------------------------------------------------------- claim C24
HrefArgs == [pages : Orders(HrefPages), href : Hrefs, processDeclared : BOOLEAN]
\* the id and the section a reference names
RefId(href) ==
  LET r == SubSeq(href, 6, Len(href))
  IN IF includes(r, "#") THEN SubSeq(r, 1, IndexOf(r, "#") - 1) ELSE r
RefSection(href) ==
  LET r == SubSeq(href, 6, Len(href))
  IN IF includes(r, "#") THEN SubSeq(r, IndexOf(r, "#") + 1, Len(r)) ELSE ""
\* the pages declared with the id, and those whose route gives the id
ByStableId(pages, id) == {i \in 1..Len(pages) : pages[i].stableId = id}
ByRoute(pages, id) ==
  {i \in 1..Len(pages) : id # "" /\ pages[i].route = "/" \o id}

\* C24: a reference page:<id> gives the route of the page declared with the
\* stable id <id> when there is one, in whatever order the pages were
\* declared, and only otherwise the route of the page whose route gives that
\* id; a section is added as #section-<section>; a reference to no page and
\* an href that does not start with page: come back as they are, and nothing
\* is thrown.
C24_MakeHref ==
  ret.done /\ arg \in HrefArgs =>
    /\ ret.value.kind = "value"
    /\ IF arg.href = Undefined \/ ~startsWith(arg.href, "page:")
         THEN ret.value.value = arg.href
         ELSE LET id == RefId(arg.href)
                  suffix == IF RefSection(arg.href) = "" THEN ""
                            ELSE "#section-" \o RefSection(arg.href)
                  stable == ByStableId(arg.pages, id)
                  routed == ByRoute(arg.pages, id)
              IN IF stable # {}
                   THEN \E i \in stable :
                          ret.value.value = arg.pages[i].route \o suffix
                 ELSE IF routed # {}
                   THEN \E i \in routed :
                          ret.value.value = arg.pages[i].route \o suffix
                 ELSE ret.value.value = arg.href

\* ----------------------------------------------------------- page hierarchy
\* a page as Page's constructor leaves it (src/src/page.js lines 17, 50, 53)
PageUnder(route, parentRoute) == [route |-> route, parentRoute |-> parentRoute]

\* lines 208-211: the last page declared with a route is the one the Map holds
pageMap(pages) ==
  [r \in {pages[i].route : i \in 1..Len(pages)} |->
     CHOOSE i \in 1..Len(pages) :
       /\ pages[i].route = r
       /\ \A j \in (i + 1)..Len(pages) : pages[j].route # r]

NoLinks(pages) ==
  [parent |-> [i \in 1..Len(pages) |-> 0],
   children |-> [i \in 1..Len(pages) |-> << >>]]

\* a linking that puts each child in front of its parent's children
RECURSIVE buildPageHierarchy_Unshift(_, _, _)
buildPageHierarchy_Unshift(pages, i, links) ==
  IF i > Len(pages) THEN links
  ELSE LET page == pages[i]
           found == ~Falsy(page.parentRoute)
                    /\ page.parentRoute \in DOMAIN pageMap(pages)
           parent == pageMap(pages)[page.parentRoute]
       IN buildPageHierarchy_Unshift(pages, i + 1,
            IF found
              THEN [parent |-> [links.parent EXCEPT ![i] = parent],
                    children |-> [links.children EXCEPT
                                    ![parent] = <<i>> \o @]]
              ELSE links)

\* lines 213-223: parent (0 for null) and children of every page, pages
\* named by their place in the list
RECURSIVE buildPageHierarchy(_, _, _)
buildPageHierarchy(pages, i, links) ==
  IF i > Len(pages) THEN links
  ELSE LET page == pages[i]
           found == ~Falsy(page.parentRoute)
                    /\ page.parentRoute \in DOMAIN pageMap(pages)
           parent == pageMap(pages)[page.parentRoute]
       IN buildPageHierarchy(pages, i + 1,
            IF found
              THEN [parent |-> [links.parent EXCEPT ![i] = parent],
                    children |-> [links.children EXCEPT
                                    ![parent] = Append(@, i)]]
              ELSE links)

MaxPages == 3
TreeRoutes == {"/", "/docs", "/docs/api"}
ParentRoutes == TreeRoutes \cup {Null, "/gone"}
PageLists ==
  [1..MaxPages -> {PageUnder(r, p) : r \in TreeRoutes, p \in ParentRoutes}]

TreeInit ==
  /\ Idle
  /\ arg \in PageLists
  /\ ret = NotApplied
  /\ website = NoSite

buildHierarchy ==
  /\ ~ret.done
  /\ ret' = Returned(buildPageHierarchy(arg, 1, NoLinks(arg)))
  /\ UNCHANGED <<storeVars, decl, node, meta, answer, requests, arg, website>>

TreeSpec == TreeInit /\ [][buildHierarchy]_vars

\* ---------------------------------------------------------------- claim C25
\* the page reached from page i by following n parent links (0: none)
RECURSIVE Ancestor(_, _, _)
Ancestor(parent, i, n) ==
  IF i = 0 \/ n = 0 THEN i ELSE Ancestor(parent, parent[i], n - 1)
InChildren(children, i, j) == \E k \in 1..Len(children[i]) : children[i][k] = j

\* C25: whatever pages are declared, the hierarchy is a forest: following
\* parent links from any page reaches a page with no parent after finitely
\* many steps, and no page is its own ancestor or its own child.
C25_Forest ==
  ret.done /\ arg \in PageLists =>
    \A i \in 1..Len(arg) :
      /\ Ancestor(ret.value.parent, i, Len(arg)) = 0
      /\ \A n \in 1..Len(arg) : Ancestor(ret.value.parent, i, n) # i
      /\ ~InChildren(ret.value.children, i, i)

\* ------------------------------------------- the fetcher call, step by step
\* DataStore.fetch on a miss is two steps of one synchronous turn: line 94
\* calls the fetcher, which runs until it hands back its promise, and only
\* then line 102 stores the promise in the in-flight table.  What the fetcher
\* does while it runs is the embedder's code; it can call fetch again.  arg
\* is the stack of the fetch calls whose fetcher is running: the signature
\* and the fetcher call of each.
Frame(key, t) == [key |-> key, t |-> t]

\* lines 76-94: a fetch call up to the moment its fetcher starts running,
\* made by the embedder or from inside a running fetcher
invokeFetcher(config) ==
  /\ Len(callers) < MaxCalls
  /\ last' = Other
  /\ UNCHANGED <<decl, node, meta, answer, requests, ret, website>>
  /\ LET key == cacheKey(config) IN
     IF fetcher = "null" THEN
       /\ callers' = Append(callers, Caller(key, "throw", 0, "rejected", ConfigError))
       /\ UNCHANGED <<fetcher, cache, inflight, transports, arg>>
     ELSE IF key \in DOMAIN cache THEN
       /\ callers' = Append(callers, Caller(key, "hit", 0, "fulfilled",
                                            [data |-> cache[key], error |-> Undefined]))
       /\ UNCHANGED <<fetcher, cache, inflight, transports, arg>>
     ELSE IF key \in DOMAIN inflight THEN
       /\ callers' = Append(callers, Caller(key, "join", inflight[key], "waiting", NoResult))
       /\ UNCHANGED <<fetcher, cache, inflight, transports, arg>>
     ELSE
       LET t == Len(transports) + 1 IN
       /\ transports' = Append(transports, Transport(key))
       /\ arg' = Append(arg, Frame(key, t))
       /\ callers' = Append(callers, Caller(key, "miss", t, "waiting", NoResult))
       /\ UNCHANGED <<fetcher, cache, inflight>>

\* lines 94-103: the innermost running fetcher hands back its promise, and
\* the fetch call that asked it stores the promise
setInflight ==
  /\ arg # << >>
  /\ LET frame == arg[Len(arg)] IN
       inflight' = MapSet(inflight, frame.key, frame.t)
  /\ arg' = SubSeq(arg, 1, Len(arg) - 1)
  /\ last' = Other
  /\ UNCHANGED <<fetcher, cache, transports, callers, decl, node, meta, answer, requests, ret, website>>

\* promises settle, and the embedder calls again, between turns only
BetweenTurns == arg = << >>

StepNext ==
  \/ BetweenTurns /\ registerFetcher
  \/ \E config \in StoreConfigs, data \in SetValues : BetweenTurns /\ set(config, data)
  \/ \E config \in StoreConfigs : invokeFetcher(config)
  \/ setInflight
  \/ \E t \in 1..MaxCalls, outcome \in Outcomes : BetweenTurns /\ settle(t, outcome)
  \/ \E c \in 1..MaxCalls : BetweenTurns /\ deliver(c)
  \/ BetweenTurns /\ clear

StepSpec == Init /\ [][StepNext]_vars

\* ---------------------------------------------------------------- claim C26
\* C26: on a miss the pending entry is registered before the fetcher is
\* invoked: while a fetcher runs, the in-flight table holds the entry of the
\* fetch that invoked it, and a fetch of the same signature made in the same
\* turn, from inside the fetcher call included, joins it: no second fetcher
\* call is made for the signature.
C26_RegisteredFirst ==
  /\ \A i \in 1..Len(arg) :
       /\ arg[i].key \in DOMAIN inflight
       /\ inflight[arg[i].key] = arg[i].t
  /\ \A i, j \in 1..Len(arg) : arg[i].key = arg[j].key => i = j

\* ---------------------------------------------------------------- claim C27
\* the fetcher call t, outstanding when clear() ran, settles with data
LateData(t) ==
  /\ t \in DOMAIN transports
  /\ Pending(t)
  /\ transports[t].orphaned
  /\ transports'[t].state = "fulfilled"
  /\ HasData(transports'[t].result.data)

\* C27: the result of a fetcher call that settles with data after clear()
\* is still written into the cache under its signature, so has(sig) is true
\* again, and the settlement removes whatever entry the in-flight table holds
\* for the signature at that time.
C27_LateSettle ==
  [][\A t \in 1..MaxCalls :
       LateData(t) =>
         /\ transports[t].key \in DOMAIN cache'
         /\ cache'[transports[t].key] = transports'[t].result.data
         /\ transports[t].key \notin DOMAIN inflight']_vars

\* the only call made settled with data after a clear, and its signature is
\* cached again
C27_Witness ==
  /\ Len(transports) = 1
  /\ Len(callers) = 1
  /\ transports[1].orphaned
  /\ transports[1].state = "fulfilled"
  /\ HasData(transports[1].result.data)
  /\ transports[1].key \in DOMAIN cache
  /\ cache[transports[1].key] = transports[1].result.data

\* ---------------------------------------------------------------- claim C28
\* the requirement is an explicit list of schema names
ExplicitList == meta.present /\ meta.inheritData.t = "array" /\ meta.inheritData.list # << >>
Listed == {meta.inheritData.list[i] : i \in 1..Len(meta.inheritData.list)}
DeclaredFor(schema) == \E i \in 1..Len(Discovered) : Discovered[i].schema = schema
\* the schema has a declaration found in the cache, under its own signature
\* or under its detail signature
Satisfied(schema) ==
  \E i \in 1..Len(Discovered) :
    /\ Discovered[i].schema = schema
    /\ has(Discovered[i].cfg) \/ DetailCached(Discovered[i])

\* C28: for an explicit list, resolve answers 'ready' only when every listed
\* schema name is satisfied from the cache, 'pending' when some listed schema
\* is not, and 'none' only when no declaration was found for any listed
\* schema.
C28_ExplicitList ==
  last.op = "resolve" /\ ExplicitList =>
    /\ answer.status = "none" => \A s \in Listed : ~DeclaredFor(s)
    /\ answer.status = "ready" => \A s \in Listed : Satisfied(s)
    /\ (\E s \in Listed : DeclaredFor(s)) /\ (\E s \in Listed : ~Satisfied(s))
         => answer.status = "pending"

\* ------------------------------------------------ incomplete detail context
\* a context without the parameter's name, and a declaration with a detail
\* convention and neither url nor path
CtxNoName == Context(Undefined, "a", "articles")
CfgNoAddress == << <<"schema", "articles">>, <<"detail", "rest">> >>

FallbackNodes ==
  { NodeDetail(CfgRest, CtxNoValue), NodeDetail(CfgQuery, CtxNoName),
    NodeDetail(CfgCustom, CtxNoValue), NodeDetail(CfgNoAddress, CtxA),
    NodeDetail(CfgRest, CtxA) }

FallbackInit ==
  /\ NewStore
  /\ decl = << >>
  /\ node \in FallbackNodes
  /\ meta \in {Meta(Inherit("true", << >>)), Meta(Inherit("array", <<"articles">>))}
  /\ answer = NoAnswer
  /\ requests = << >>
  /\ NoCall

\* the block is resolved and fetched in any order while the store fills
FallbackNext ==
  \/ EntityStore_fetch(node, meta)
  \/ Resolve
  \/ EntityEnv

FallbackSpec == FallbackInit /\ [][FallbackNext]_vars

\* ---------------------------------------------------------------- claim C29
\* the declaration has a detail convention, and the context of the block has
\* no parameter name or no parameter value, or the declaration no address
Incomplete(e) ==
  /\ GetField(e.cfg, "detail") # Undefined
  /\ dynamicContext(node).present
  /\ \/ dynamicContext(node).paramName = Undefined
     \/ dynamicContext(node).paramValue = Undefined
     \/ GetField(e.cfg, "url") = Undefined /\ GetField(e.cfg, "path") = Undefined

\* this step is an EntityStore.fetch call that asks the store
AsksStore ==
  /\ Len(requests') = Len(requests) + 1
  /\ requests'[Len(requests')].parts # << >>

FallsBack ==
  AsksStore =>
    \A i \in 1..Len(Discovered) :
      Incomplete(Discovered[i]) =>
        LET request == requests'[Len(requests')]
            part == request.parts[i]
        IN /\ part.key = Discovered[i].schema
           /\ callers'[part.caller].key = cacheKey(Discovered[i].cfg)
           /\ request.state = "waiting"

Unsatisfied ==
  last.op = "resolve" =>
    \A i \in 1..Len(Discovered) :
      Incomplete(Discovered[i]) =>
        IF has(Discovered[i].cfg)
          THEN /\ answer.status = "ready"
               /\ answer.data.bag[Discovered[i].schema] = get(Discovered[i].cfg)
          ELSE PendingAnswer

\* C29: for a declaration with a detail convention on a block whose dynamic
\* context lacks the parameter name or value, or with no address, no detail
\* request is made: fetch asks for the collection under the collection
\* signature and raises no error, and resolve counts the schema as not
\* satisfied unless the collection is cached.
C29_Fallback == [][FallsBack]_vars /\ []Unsatisfied

\* a block whose context has no parameter value was fetched: the collection
\* was asked for under its own signature and is in the bag under the schema
C29_Witness ==
  /\ node = NodeDetail(CfgRest, CtxNoValue)
  /\ Len(requests) = 1
  /\ requests[1].state = "fulfilled"
  /\ callers[requests[1].parts[1].caller].key = cacheKey(CfgRest)
  /\ callers[requests[1].parts[1].caller].via = "miss"
  /\ DOMAIN requests[1].result.bag = {"articles"}

\* ---------------------------------------------------------------- claim C30
\* the DataStore.fetch promise behind part i of request r
Behind(r, i) == callers[requests[r].parts[i].caller]
\* no DataStore.fetch call of the request was refused for want of a fetcher
Issued(r) == \A i \in DOMAIN requests[r].parts : Behind(r, i).via # "throw"

\* C30: fetch issues its requests together, waits until all have settled and
\* always resolves, never raises: a request without data, a transport error
\* included, adds no key to the bag, and every request that returned data has
\* its key in the bag.
C30_AlwaysResolves ==
  \A r \in DOMAIN requests :
    Issued(r) =>
      /\ requests[r].state # "rejected"
      /\ requests[r].state = "fulfilled" /\ requests[r].parts # << >> =>
           \A i \in DOMAIN requests[r].parts :
             /\ Behind(r, i).state = "fulfilled"
             /\ HasData(Behind(r, i).value.data)
                  <=> requests[r].parts[i].key \in DOMAIN requests[r].result.bag

\* ------------------------------------------------- dynamic page materialization
\* a section of a page's data: the data bag handed down to it, the dynamic
\* context of the page it belongs to, and its subsections
NoDynamicContext == [present |-> FALSE]
Section(cascadedData, subsections) ==
  [cascadedData |-> cascadedData, dynamicContext |-> NoDynamicContext,
   subsections |-> subsections]

\* { ...a, ...b }
Spread(a, b) ==
  [k \in DOMAIN a \cup DOMAIN b |-> IF k \in DOMAIN b THEN b[k] ELSE a[k]]

\* lines 484-502
RECURSIVE _injectDynamicData(_, _, _)
_injectDynamicData(sections, cascadedData, context) ==
  [i \in 1..Len(sections) |->
     [cascadedData |-> Spread(sections[i].cascadedData, cascadedData),
      dynamicContext |-> context,
      subsections |->
        IF Len(sections[i].subsections) > 0
          THEN _injectDynamicData(sections[i].subsections, cascadedData,
                                  context)
          ELSE sections[i].subsections]]

\* route.replace(/\/:[\w]+$/, '') || '/'
RECURSIVE LastIndexOf(_, _)
LastIndexOf(s, ch) ==
  IF s = "" THEN 0
  ELSE IF LastChar(s) = ch THEN Len(s) ELSE LastIndexOf(DropLast(s, 1), ch)
parentRouteOf(route) ==
  LET slash == LastIndexOf(route, "/")
      tail == IF slash = 0 THEN "" ELSE DropFirst(route, slash)
      isParam == /\ startsWith(tail, ":")
                 /\ Len(tail) >= 2
                 /\ WordRun(DropFirst(tail, 1)) = Len(tail) - 1
      stripped == IF isParam THEN SubSeq(route, 1, slash - 1) ELSE route
  IN IF stripped = "" THEN "/" ELSE stripped

\* Object.keys(params)[0]: the name written first in the template
firstParamName(templateRoute) ==
  LET names == replaceParams(escapeSpecial(templateRoute)).paramNames
  IN IF names = << >> THEN Undefined ELSE names[1]

\* what _createDynamicPage hands back: the new Page (null when the template
\* has no stored data) and the data the website stores for its templates
NoNewPage(w) == [isNull |-> TRUE, page |-> << >>, dynamicPageData |-> w.dynamicPageData]
NewPage(w, page) == [isNull |-> FALSE, page |-> page, dynamicPageData |-> w.dynamicPageData]

\* the item fields read for the page's metadata: '' stands for a falsy one
ItemText(item, f) ==
  IF Falsy(String(ItemField(item, f))) THEN "" ELSE String(ItemField(item, f))

\* lines 379-397: the items of the listing page's first content block
itemsOf(w, templateRoute, pluralSchema) ==
  LET parentRoute == parentRouteOf(templateRoute)
      parents == {i \in 1..Len(w.pages) : w.pages[i].route = parentRoute}
      parentPage == IF parents = {} THEN 0
                    ELSE CHOOSE i \in parents : \A j \in parents : i <= j
      firstSection == IF parentPage # 0 /\ Len(w.bodies[parentPage]) > 0
                        THEN w.bodies[parentPage][1] ELSE EmptyMap
  IN IF parentPage # 0 /\ ~Falsy(pluralSchema)
        /\ pluralSchema \in DOMAIN firstSection
       THEN firstSection[pluralSchema].items ELSE << >>

\* lines 355-436, with the items and the place of the current item in hand
pageFrom(originalData, templatePage, concreteRoute, params, paramName, items, found) ==
  LET paramValue == IF paramName = Undefined THEN Undefined ELSE params[paramName]
      pluralSchema == originalData.parentSchema
      singularSchema == _singularize(pluralSchema)
      currentItem == IF Len(items) = 0 THEN JsNull
                     ELSE IF found = 0 THEN JsUndefined
                     ELSE JsObject(items[found])
      context ==
        [present |-> TRUE, templateRoute |-> templatePage.route,
         params |-> params, paramName |-> paramName, paramValue |-> paramValue,
         schema |-> pluralSchema, singularSchema |-> singularSchema,
         currentItem |-> currentItem, allItems |-> items]
      single == IF found # 0 /\ ~Falsy(singularSchema)
                  THEN singularSchema :> currentItem ELSE EmptyMap
      cascadedData ==
        IF Len(items) > 0 /\ ~Falsy(pluralSchema)
          THEN Spread(single, pluralSchema :> JsArray(items)) ELSE single
      itemTitle == IF found # 0 THEN ItemText(items[found], "title") ELSE ""
      itemDescription ==
        IF found = 0 THEN ""
        ELSE IF ItemText(items[found], "description") # ""
          THEN ItemText(items[found], "description")
        ELSE ItemText(items[found], "excerpt")
      title == IF itemTitle # "" THEN itemTitle ELSE originalData.title
      description == IF itemDescription # "" THEN itemDescription
                     ELSE originalData.description
  IN [route |-> concreteRoute,
      isDynamic |-> FALSE,
      title |-> IF Falsy(title) THEN "" ELSE title,
      description |-> IF Falsy(description) THEN "" ELSE description,
      dynamicContext |-> context,
      sections |-> _injectDynamicData(originalData.sections, cascadedData, context),
      parent |-> templatePage.parent]

\* a materialization that works on the stored data itself, not on a copy
_createDynamicPage_Shallow(w, templatePage, concreteRoute, params) ==
  IF templatePage.route \notin DOMAIN w.dynamicPageData THEN NoNewPage(w)
  ELSE
    LET originalData == w.dynamicPageData[templatePage.route]
    IN CHOOSE made \in
         { [isNull |-> FALSE, page |-> page,
            dynamicPageData |->
              [w.dynamicPageData EXCEPT
                 ![templatePage.route] =
                    [originalData EXCEPT !.route = page.route,
                                         !.title = page.title,
                                         !.description = page.description,
                                         !.sections = page.sections]]]
             : page \in
                 { pageFrom(originalData, templatePage, concreteRoute, params,
                            paramName, items,
                            IF paramName = Undefined \/ Len(items) = 0 THEN 0
                            ELSE find(items, paramName, params[paramName]))
                     : paramName \in {firstParamName(templatePage.route)},
                       items \in {itemsOf(w, templatePage.route,
                                          originalData.parentSchema)} } }
         : TRUE

\* a materialization that gives up when the listing has no items
_createDynamicPage_NeedsItems(w, templatePage, concreteRoute, params) ==
  IF templatePage.route \notin DOMAIN w.dynamicPageData THEN NoNewPage(w)
  ELSE
    LET originalData == w.dynamicPageData[templatePage.route]
    IN CHOOSE made \in
         { IF Len(items) = 0 THEN NoNewPage(w)
           ELSE NewPage(w, pageFrom(originalData, templatePage, concreteRoute,
                                    params, paramName, items,
                                    IF paramName = Undefined THEN 0
                                    ELSE find(items, paramName, params[paramName])))
             : paramName \in {firstParamName(templatePage.route)},
               items \in {itemsOf(w, templatePage.route, originalData.parentSchema)} }
         : TRUE

\* lines 348-437; the items and the current item are looked up once
_createDynamicPage(w, templatePage, concreteRoute, params) ==
  IF templatePage.route \notin DOMAIN w.dynamicPageData THEN NoNewPage(w)
  ELSE
    LET originalData == w.dynamicPageData[templatePage.route]
    IN CHOOSE made \in
         { NewPage(w, pageFrom(originalData, templatePage, concreteRoute, params,
                               paramName, items,
                               IF paramName = Undefined \/ Len(items) = 0 THEN 0
                               ELSE find(items, paramName, params[paramName])))
             : paramName \in {firstParamName(templatePage.route)},
               items \in {itemsOf(w, templatePage.route, originalData.parentSchema)} }
         : TRUE

\* lines 287-303 with the page made: the templates in the order of the list,
\* the first one that matches and yields a page decides
RECURSIVE tryTemplates(_, _, _)
afterMade(w, route, i, m, made) ==
  LET stored == [w EXCEPT !.dynamicPageData = made.dynamicPageData]
      dynamicPage == DynamicPage(Materialized(w, route) + 1, w.pages[i], route,
                                 m.params)
  IN IF made.isNull THEN tryTemplates(stored, route, i + 1)
     ELSE PageFound(
            [stored EXCEPT
               !.dynamicPageCache = MapSet(@, route, dynamicPage),
               !.materialized = MapSet(@, route, Materialized(w, route) + 1),
               !.content = MapSet(@, route, made.page)],
            dynamicPage)
afterMatch(w, route, i, m) ==
  IF m.kind = "null" THEN tryTemplates(w, route, i + 1)
  ELSE IF m.kind = "throw" THEN Threw(w)
  ELSE CHOOSE out \in
         { afterMade(w, route, i, m, made) :
             made \in {_createDynamicPage(w, w.pages[i], route, m.params)} }
         : TRUE
tryTemplates(w, route, i) ==
  IF i > Len(w.pages) THEN NothingFound(w)
  ELSE IF ~includes(w.pages[i].route, ":") THEN tryTemplates(w, route, i + 1)
  ELSE CHOOSE out \in
         { afterMatch(w, route, i, m) :
             m \in {_matchDynamicRoute(w.pages[i].route, route)} }
         : TRUE

\* getPage on a website that carries the data of its pages: lines 251-285,
\* then the templates
getPageMade(w, route) ==
  LET n == normalizedRoute(w, route)
      Exact(page) == page.route = n
      Index(page) == page.isIndex /\ getNavRoute(page) = n
      exactMatch == FirstPage(w, Exact)
      indexMatch == FirstPage(w, Index)
  IN IF exactMatch # 0 THEN PageFound(w, StaticPage(w, exactMatch))
     ELSE IF indexMatch # 0 THEN PageFound(w, StaticPage(w, indexMatch))
     ELSE IF n \in DOMAIN w.dynamicPageCache
       THEN PageFound(w, w.dynamicPageCache[n])
     ELSE tryTemplates(w, n, 1)

\* ------------------------------------------------------ websites with data
PostA == [slug |-> Str("a"), title |-> Str("Post A"), description |-> Str("About A")]
PostB == [slug |-> Str("b"), excerpt |-> Str("Short B")]
PostC == [slug |-> Str("c"), title |-> Str("Post C")]
Posts == JsArray(<<PostA, PostB, PostC>>)

\* the data of a page as the build wrote it
DataOf(route, isIndex, title, description, parentSchema, sections, parent) ==
  [route |-> route, isIndex |-> isIndex, title |-> title,
   description |-> description, parentSchema |-> parentSchema,
   sections |-> sections, parent |-> parent]

TemplateSections ==
  << Section("theme" :> JsObject([slug |-> Str("dark")]), << >>),
     Section("articles" :> JsArray(<< >>), <<Section(EmptyMap, << >>)>>) >>

HomeData == DataOf("/", TRUE, "Home", "", Undefined, << >>, Null)
ListingData == DataOf("/blog", TRUE, "Blog", "", Undefined, << >>, Null)
Templates_Blog ==
  { DataOf("/blog/:slug", FALSE, Undefined, Undefined, "articles",
           TemplateSections, "/blog"),
    DataOf("/blog/:slug", FALSE, "Blog post", "A post of the blog", "articles",
           TemplateSections, "/blog"),
    DataOf("/blog/:slug", FALSE, "Blog post", Undefined, Undefined,
           TemplateSections, "/blog") }

\* the data bags of the listing page's content blocks: no block, a first
\* block without the collection, with the posts, the posts in a later block
ListingBodies ==
  { << >>, <<EmptyMap>>, <<"articles" :> Posts>>,
    <<EmptyMap, "articles" :> Posts>> }

\* lines 35-41 and 46-49: the constructor keeps the data of the templates
\* and makes the pages
SiteWithData(pages, bodies) ==
  [Website(pages, Undefined, Undefined, << >>, EmptyMap) EXCEPT
     !.pages = pages] @@
  [dynamicPageData |->
     [r \in {pages[i].route : i \in {j \in 1..Len(pages) :
                                        includes(pages[j].route, ":")}} |->
        pages[CHOOSE i \in 1..Len(pages) :
                /\ pages[i].route = r
                /\ \A j \in (i + 1)..Len(pages) : pages[j].route # r]],
   bodies |-> bodies,
   links |-> buildPageHierarchy(
               [i \in 1..Len(pages) |-> PageUnder(pages[i].route, pages[i].parent)],
               1,
               NoLinks([i \in 1..Len(pages) |->
                          PageUnder(pages[i].route, pages[i].parent)])),
   content |-> EmptyMap]

SitesWithData ==
  {SiteWithData(<<HomeData, ListingData, t>>, <<(<< >>), body, (<< >>)>>) :
     t \in Templates_Blog, body \in ListingBodies}
  \cup {SiteWithData(<<HomeData, t>>, <<(<< >>), (<< >>)>>) : t \in Templates_Blog}

ConcretePaths ==
  {"/blog/a", "/blog/b", "/blog/zz", "/blog/a/", "/blog", "/about",
   "/blog/100%"}

MaterializeInit ==
  /\ Idle
  /\ arg = << >>
  /\ ret = NotApplied
  /\ website \in SitesWithData

\* one call of getPage on a website with data
GetPageMade ==
  \E route \in ConcretePaths :
    \E done \in {getPageMade(website, route)} :
       /\ Materialized(website, normalizedRoute(website, route)) < MaxMaterialized
       /\ website' = done.website
       /\ arg' = [op |-> "getPage", route |-> route]
       /\ ret' = Returned([kind |-> done.kind, page |-> done.page,
                            made |-> done.website.materialized # website.materialized])
       /\ UNCHANGED <<storeVars, decl, node, meta, answer, requests>>

MaterializeSpec == MaterializeInit /\ [][GetPageMade]_vars

\* ---------------------------------------------------------------- claim C31
\* the templates whose pattern the path matches
MatchedBy(n) ==
  {i \in 1..Len(website.pages) :
     /\ includes(website.pages[i].route, ":")
     /\ _matchDynamicRoute(website.pages[i].route, n).kind = "match"}
\* the listing pages of the blog, and whether the posts can be found there
Listings == {i \in 1..Len(website.pages) : website.pages[i].route = "/blog"}
CollectionMissing ==
  \/ Listings = {}
  \/ \E i \in Listings :
       \/ website.bodies[i] = << >>
       \/ "articles" \notin DOMAIN website.bodies[i][1]

\* the last lookup came to the templates and its path matches one: a page
\* came back, it is the one cached for the route, and without the collection
\* its context has no items and no current item
Completes ==
  Looked =>
    LET n == normalizedRoute(website, arg.route)
    IN StaticAt(n) = {} /\ IndexAt(n) = {} /\ MatchedBy(n) # {} =>
         /\ ret.value.kind = "page"
         /\ ret.value.page.kind = "dynamic"
         /\ n \in DOMAIN website.dynamicPageCache
         /\ website.dynamicPageCache[n] = ret.value.page
         /\ n \in DOMAIN website.content
         /\ website.content[n].route = n
         /\ CollectionMissing =>
              /\ website.content[n].dynamicContext.allItems = << >>
              /\ website.content[n].dynamicContext.currentItem.t # "object"

\* a lookup of a route that has a cached page gets that page, and the cache
\* and the page keep what they held
CachedReturned ==
  LET n == normalizedRoute(website, arg'.route)
  IN arg' # << >> /\ arg'.op = "getPage" /\ ret'.done
       /\ n \in DOMAIN website.dynamicPageCache =>
         /\ ret'.value.kind = "page"
         /\ ret'.value.page = website.dynamicPageCache[n]
         /\ website'.dynamicPageCache = website.dynamicPageCache
         /\ website'.content = website.content

\* C31: materialization has no failure state: for every path a template
\* matches, getPage returns a page and caches it under the route, also when
\* the listing page, its first content block or the collection is missing,
\* and then the dynamic context has an empty item list and no current item;
\* every later lookup of the route returns the cached page.
C31_NoFailure == [][CachedReturned]_vars /\ []Completes

\* on a site without listing page /blog/a was materialized with no items,
\* and looked up again
C31_Witness ==
  /\ Looked
  /\ Listings = {}
  /\ arg.route = "/blog/a/"
  /\ ~ret.value.made
  /\ ret.value.kind = "page"
  /\ ret.value.page = website.dynamicPageCache["/blog/a"]
  /\ website.content["/blog/a"].dynamicContext.allItems = << >>
  /\ website.content["/blog/a"].dynamicContext.currentItem = JsNull

\* ---------------------------------------------------------------- claim C32
\* the template a materialized page was made from, and its matched item
TemplateOf(n) == website.dynamicPageData[website.content[n].dynamicContext.templateRoute]
MatchedItem(n) == website.content[n].dynamicContext.currentItem

\* C32: a materialized page takes its title and its description from the
\* matched item only where the template leaves them unset; a title or a
\* description declared on the template is kept.
C32_TemplateKept ==
  \A n \in DOMAIN website.content :
    /\ TemplateOf(n).title # Undefined =>
         website.content[n].title = TemplateOf(n).title
    /\ TemplateOf(n).description # Undefined =>
         website.content[n].description = TemplateOf(n).description
    /\ TemplateOf(n).title = Undefined /\ MatchedItem(n).t = "object" =>
         website.content[n].title = ItemText(MatchedItem(n).items[1], "title")

\* ---------------------------------------------------------------- claim C33
\* what a lookup leaves alone: the stored data of the templates, the pages,
\* their content blocks and the hierarchy
TemplatesUntouched ==
  /\ website'.dynamicPageData = website.dynamicPageData
  /\ website'.pages = website.pages
  /\ website'.bodies = website.bodies
  /\ website'.links = website.links

\* the data a materialized page got for its own route
OwnData(n) ==
  LET c == website.content[n].dynamicContext
      single == IF c.currentItem.t = "object" /\ ~Falsy(c.singularSchema)
                  THEN c.singularSchema :> c.currentItem ELSE EmptyMap
  IN IF Len(c.allItems) > 0 /\ ~Falsy(c.schema)
       THEN Spread(single, c.schema :> JsArray(c.allItems)) ELSE single
\* sections that hold what the template declares and the given data, nothing else
RECURSIVE OnlyOwn(_, _, _)
OnlyOwn(sections, declared, own) ==
  /\ Len(sections) = Len(declared)
  /\ \A i \in 1..Len(sections) :
       /\ sections[i].cascadedData = Spread(declared[i].cascadedData, own)
       /\ OnlyOwn(sections[i].subsections, declared[i].subsections, own)
Isolated ==
  \A n \in DOMAIN website.content :
    /\ TemplateOf(n).route = website.content[n].dynamicContext.templateRoute
    /\ OnlyOwn(website.content[n].sections, TemplateOf(n).sections, OwnData(n))

\* C33: materialization works on a deep copy: over any sequence of lookups
\* the stored declaration of the template, the page list and the children
\* lists stay as they were, and the data injected for one concrete route is
\* not seen in the page made for another route of the same template.
C33_DeepCopy == [][TemplatesUntouched]_vars /\ []Isolated

\* /blog/a was made with its item, then /blog/zz without one, from the same
\* template, whose stored sections are still the declared ones
C33_Witness ==
  /\ {"/blog/a", "/blog/zz"} \subseteq DOMAIN website.content
  /\ website.materialized["/blog/a"] = 1
  /\ "article" \in DOMAIN website.content["/blog/a"].sections[1].cascadedData
  /\ "article" \notin DOMAIN website.content["/blog/zz"].sections[1].cascadedData
  /\ website.dynamicPageData["/blog/:slug"].sections = TemplateSections
  /\ arg.route = "/blog/zz"

\* ---------------------------------------------------------------- claim C34
\* this step is a call of resolve
ResolveStep == last'.op = "resolve"

\* C34: resolve is synchronous and reads the cache only: a call never invokes
\* the fetcher and leaves the cache and the in-flight table as they were.
C34_CacheOnly ==
  [][ResolveStep =>
       /\ transports' = transports
       /\ callers' = callers
       /\ cache' = cache
       /\ inflight' = inflight]_vars

\* resolve answered 'pending' while the fetcher call for the block's
\* collection was outstanding, and the call is still the only one
C34_Witness ==
  /\ last.op = "resolve"
  /\ answer.status = "pending"
  /\ Len(transports) = 1
  /\ Pending(1)
  /\ DOMAIN inflight = {transports[1].key}
  /\ cache = EmptyMap

\* ---------------------------------------------------------------- claim C35
\* how many times page j stands in the children of page i
Occurrences(children, i, j) ==
  Cardinality({k \in 1..Len(children[i]) : children[i][k] = j})
\* the page a declared parent route stands for: the one the route was last
\* registered for (0: the route is empty or no page has it)
RegisteredUnder(pages, parentRoute) ==
  IF parentRoute = Null
    THEN 0
    ELSE IF \E j \in 1..Len(pages) : pages[j].route = parentRoute
           THEN CHOOSE j \in 1..Len(pages) :
                  /\ pages[j].route = parentRoute
                  /\ \A k \in 1..Len(pages) : pages[k].route = parentRoute => k <= j
           ELSE 0

AllData(r) ==
  \A i \in DOMAIN requests[r].parts :
    /\ Behind(r, i).state = "fulfilled"
    /\ HasData(Behind(r, i).value.data)
\* fetch settled with a bag made of results that carried data
SettledWithData(r) ==
  /\ requests[r].state = "fulfilled"
  /\ requests[r].parts # << >>
  /\ AllData(r)

\* C36: once fetch(node, requirement) has settled with every result carrying
\* data, resolve(node, requirement) answers 'ready' with the bag fetch
\* returned, the detail and the singular keys included.
C36_FetchThenResolve ==
  last.op = "resolve" =>
    \A r \in DOMAIN requests :
      SettledWithData(r) =>
        /\ answer.status = "ready"
        /\ answer.data = requests[r].result

\* ---------------------------------------------------------------- claim C37
\* C37: in every reachable state of the DataStore no signature is both in the
\* cache and in the in-flight table, so that a value stored by set() is not
\* overwritten by the result of a fetch started before the set.
C37_CacheOrInflight == DOMAIN cache \cap DOMAIN inflight = {}

\* --------------------------------------------------------- getPageHierarchy
\* a page as getPageHierarchy reads it; the pages of this part have body
\* content, so getNavigableRoute answers the page's own route
NavPage(route, parentRoute, hidden, hideInHeader) ==
  [route |-> route, parentRoute |-> parentRoute, hidden |-> hidden,
   hideInHeader |-> hideInHeader, hideInFooter |-> FALSE]
NavOptions(navType, includeHidden) == [for |-> navType, includeHidden |-> includeHidden]

\* lines 852-872, without a custom filter
isPageVisible(page, options) ==
  IF startsWith(page.route, "/@") THEN FALSE
  ELSE IF includes(page.route, ":") THEN FALSE
  ELSE IF ~options.includeHidden
            /\ \/ page.hidden
               \/ options.for = "header" /\ page.hideInHeader
               \/ options.for = "footer" /\ page.hideInFooter
         THEN FALSE
  ELSE TRUE

\* lines 888-904: the record of page i; children are records of the same kind
RECURSIVE buildPageInfo(_, _, _, _, _)
buildPageInfo(pages, links, options, nested, i) ==
  [page |-> i,
   route |-> pages[i].route,
   navigableRoute |-> pages[i].route,
   children |->
     IF nested /\ Len(links.children[i]) > 0
       THEN LET shown == SelectSeq(links.children[i],
                                   LAMBDA j : isPageVisible(pages[j], options))
            IN [k \in 1..Len(shown) |->
                  buildPageInfo(pages, links, options, nested, shown[k])]
       ELSE << >>]

\* lines 843-907, without a custom sort
getPageHierarchy(pages, links, options, nested) ==
  LET visible == SelectSeq([i \in 1..Len(pages) |-> i],
                           LAMBDA i : isPageVisible(pages[i], options))
      filteredPages == IF nested
                         THEN SelectSeq(visible, LAMBDA i : links.parent[i] = 0)
                         ELSE visible
  IN [k \in 1..Len(filteredPages) |->
        buildPageInfo(pages, links, options, nested, filteredPages[k])]

NavRoutes == {"/docs", "/docs/api", "/docs/:id"}
NavParents == {Null, "/docs", "/docs/api"}
NavPages ==
  {NavPage(r, p, v[1], v[2]) :
     r \in NavRoutes, p \in NavParents,
     v \in {<<FALSE, FALSE>>, <<TRUE, FALSE>>, <<FALSE, TRUE>>}}
NavInputs ==
  [pages : [1..MaxPages -> NavPages],
   options : {NavOptions(t, h) : t \in {Undefined, "header"}, h \in BOOLEAN}]

NavInit ==
  /\ Idle
  /\ arg \in NavInputs
  /\ ret = NotApplied
  /\ website = NoSite

\* the site is built (buildPageHierarchy, line 52) and asked for its pages
\* both ways with the same options
getHierarchies ==
  /\ ~ret.done
  /\ \E links \in {buildPageHierarchy(arg.pages, 1, NoLinks(arg.pages))} :
       ret' = Returned([links |-> links,
                        nested |-> getPageHierarchy(arg.pages, links, arg.options, TRUE),
                        flat |-> getPageHierarchy(arg.pages, links, arg.options, FALSE)])
  /\ UNCHANGED <<storeVars, decl, node, meta, answer, requests, arg, website>>

NavSpec == NavInit /\ [][getHierarchies]_vars

\* ---------------------------------------------------------------- claim C38
\* how many records of page p a list of records holds, children included
RECURSIVE CountIn(_, _)
CountIn(infos, p) ==
  IF Len(infos) = 0 THEN 0
  ELSE (IF infos[1].page = p THEN 1 ELSE 0)
       + CountIn(infos[1].children, p)
       + CountIn(Tail(infos), p)

\* C38: whatever the options, the nested and the flat result cover the same
\* pages: every page that passes the visibility filter is there exactly once
\* in the nested result, as a root or among the children of its parent, and
\* exactly once in the flat result, and flat records have no children.
C38_SameCover ==
  ret.done /\ arg \in NavInputs =>
    /\ \A p \in 1..Len(arg.pages) :
         isPageVisible(arg.pages[p], arg.options) =>
           /\ CountIn(ret.value.nested, p) = 1
           /\ CountIn(ret.value.flat, p) = 1
    /\ \A k \in 1..Len(ret.value.flat) : ret.value.flat[k].children = << >>

\* --------------------------------------------------------------- locale URLs
\* lines 665-695, for a route that is given
getLocaleUrl(w, localeCode, route) ==
  LET prefix == "/" \o w.activeLocale
      stripped ==
        IF ~Falsy(w.activeLocale) /\ w.activeLocale # w.defaultLocale
          THEN IF route = prefix \/ route = prefix \o "/" THEN "/"
               ELSE IF startsWith(route, prefix \o "/")
                 THEN DropFirst(route, Len(prefix))
               ELSE route
          ELSE route
      targetRoute == reverseTranslateRoute(w, stripped, w.activeLocale)
      translatedRoute == translateRoute(w, targetRoute, localeCode)
  IN IF localeCode = w.defaultLocale THEN targetRoute
     ELSE IF translatedRoute = "/" THEN "/" \o localeCode \o "/"
     ELSE "/" \o localeCode \o translatedRoute

\* a site in two more languages, its sections named in French; each section
\* is translated at most once
LocalePages ==
  << PageData("/", TRUE), PageData("/blog", TRUE), PageData("/blog/intro", FALSE),
     PageData("/docs", TRUE), PageData("/docs/intro", FALSE) >>
SectionNames ==
  {<<c, d>> : c \in {"/blog", "/docs"},
              d \in {"/actualites", "/actualites/guide", "/guide", "/docs"}}
LocaleTables ==
  {<< >>} \cup {<<e>> : e \in SectionNames}
          \cup {<<p[1], p[2]>> :
                  p \in {q \in SectionNames \X SectionNames : q[1][1] # q[2][1]}}
LocaleSites ==
  { Website(LocalePages, Undefined, L, <<"fr", "es">>, "fr" :> t) :
      L \in {"en", "fr", "es"}, t \in LocaleTables }

LocaleUrlInit ==
  /\ Idle
  /\ arg \in 1..Len(LocalePages)
  /\ ret = NotApplied
  /\ website \in LocaleSites

\* getPage(getLocaleUrl(L, p.route)) for the active locale L and the page p
\* at place arg
localeUrlAndBack ==
  /\ ~ret.done
  /\ \E url \in {getLocaleUrl(website, website.activeLocale,
                              website.pages[arg].route)} :
       \E done \in {getPage(website, url)} :
         /\ ret' = Returned([url |-> url, kind |-> done.kind, page |-> done.page])
         /\ website' = done.website
  /\ UNCHANGED <<storeVars, decl, node, meta, answer, requests, arg>>

LocaleUrlSpec == LocaleUrlInit /\ [][localeUrlAndBack]_vars

\* ---------------------------------------------------------------- claim C39
\* C39: for every page that is not a template and every configured locale L,
\* with L the active locale, getPage(getLocaleUrl(L, p.route)) is p.
C39_UrlAndBack ==
  ret.done /\ arg \in 1..Len(LocalePages) =>
    /\ ret.value.kind = "page"
    /\ ret.value.page = StaticPage(website, arg)

\* ------------------------------------------------------ walks over the pages
\* a walk, step by step.  arg is the site's pages, the page the walk starts
\* from and which walk it is; ret holds the links of the site and where the
\* walk stands: the page variable of the ancestor loop and how many turns the
\* loop has taken, the pages whose getNavigableRoute call is on the stack.
\* MaxDepth stands for what the engine can hold: a stack of so many calls, a
\* sources array of so many entries.
MaxDepth == 4
ContentPage(route, parentRoute, bodyBlocks) ==
  [route |-> route, parentRoute |-> parentRoute, bodyBlocks |-> bodyBlocks]
\* src/src/page.js lines 397-399
hasContent(page) == page.bodyBlocks > 0
Walking(links, page, stack) ==
  [done |-> FALSE, links |-> links, page |-> page, turns |-> 0, stack |-> stack]
\* the engine gives up a recursion deeper than its stack
StackOverflow == "RangeError: Maximum call stack size exceeded"
\* the engine gives up a loop that pushes onto an array without end
OutOfMemory == "RangeError: Invalid array length"
Walked(kind, value) == Returned([kind |-> kind, value |-> value])

WalkRoutes == <<"/", "/docs", "/docs/api">>
WalkInputs ==
  [pages : {[i \in 1..MaxPages |-> ContentPage(WalkRoutes[i], p[i], b[i])] :
              p \in [1..MaxPages -> {Null, "/", "/docs", "/docs/api"}],
              b \in [1..MaxPages -> {0, 1}]},
   start : 1..MaxPages,
   walk : {"ancestors", "navigable"}]

WalkInit ==
  /\ Idle
  /\ arg \in WalkInputs
  /\ ret = NotApplied
  /\ website = NoSite

\* the site is built (part_003 line 52) and the walk is called for a page
startWalk ==
  /\ ret = NotApplied
  /\ ret' = Walking(buildPageHierarchy(arg.pages, 1, NoLinks(arg.pages)),
                    arg.start, <<arg.start>>)
  /\ UNCHANGED <<storeVars, decl, node, meta, answer, requests, arg, website>>

\* part_002 lines 341-346: one turn of while (page)
ancestorStep ==
  /\ ret # NotApplied
  /\ ~ret.done
  /\ arg.walk = "ancestors"
  /\ IF ret.page = 0
       THEN ret' = Walked("returned", "sources")
       ELSE IF ret.turns >= MaxDepth
         THEN ret' = Walked("throw", OutOfMemory)
       ELSE ret' = [ret EXCEPT !.page = ret.links.parent[ret.page],
                               !.turns = @ + 1]
  /\ UNCHANGED <<storeVars, decl, node, meta, answer, requests, arg, website>>

\* src/src/page.js lines 419-426: the call on top of the stack.  A route is
\* never empty, so what the first child answers is returned all the way up.
getNavigableRoute ==
  /\ ret # NotApplied
  /\ ~ret.done
  /\ arg.walk = "navigable"
  /\ LET page == ret.stack[Len(ret.stack)]
         children == ret.links.children[page]
     IN IF hasContent(arg.pages[page]) \/ Len(children) = 0
          THEN ret' = Walked("returned", arg.pages[page].route)
        ELSE IF Len(ret.stack) >= MaxDepth
          THEN ret' = Walked("throw", StackOverflow)
        ELSE ret' = [ret EXCEPT !.stack = Append(@, children[1])]
  /\ UNCHANGED <<storeVars, decl, node, meta, answer, requests, arg, website>>

WalkNext == startWalk \/ ancestorStep \/ getNavigableRoute
WalkSpec == WalkInit /\ [][WalkNext]_vars
\* a walk that can take a step takes it
WalkFairSpec == WalkSpec /\ WF_vars(WalkNext)

\* ---------------------------------------------------------------- claim C40
\* C40: every walk over a hierarchy built from declared parent routes ends:
\* the loop that follows page.parent until it is null and the recursion of
\* getNavigableRoute over the children both return after finitely many steps.
C40_WalksEnd == <>(ret.done /\ ret.value.kind = "returned")
====
